---- MODULE Spec2Model ----
(***************************************************************************)
(* A model of the Conway-Hart polyhedron operators of src/src/lib.rs.      *)
(*                                                                         *)
(* A mesh is the four fields of struct Polyhedron.  Indices are kept as in *)
(* the source (0-based values stored in the faces); TLA+ sequences are     *)
(* 1-based, so point i of the source is points[i + 1] and face i of the    *)
(* source is face_index[i + 1].                                            *)
(*                                                                         *)
(* Float (f32) is modelled as fixed point: the integer x stands for the    *)
(* number x / Scale, and every product and quotient is rounded to the      *)
(* nearest unit.  Option<T> is modelled as a sequence: None is << >> and   *)
(* Some(x) is << x >>.  A panic (a failed unwrap, an index out of bounds)  *)
(* is modelled by the field ok of a result turning FALSE.                  *)
(***************************************************************************)
EXTENDS Integers, Sequences, FiniteSets, TLC

VARIABLES points, face_index, face_set_index, name, panicked, calls, last, prev,
          par

vars == <<points, face_index, face_set_index, name, panicked, calls, last, prev,
          par>>

(***************************************************************************)
(* Bounds of the exploration.                                              *)
(***************************************************************************)
\* An operator is called on a mesh only while fewer than MaxCalls operator
\* calls were made on it.
MaxCalls == 2
\* After the first call, an operator is called only on a mesh of at most
\* MaxEdges distinct edges.  Every seed is operated on.
MaxEdges == 12

(***************************************************************************)
(* Option<T>                                                               *)
(***************************************************************************)
None == << >>
Some(x) == << x >>
IsSome(o) == Len(o) = 1
Unwrap(o) == o[1]

(***************************************************************************)
(* Generic sequence helpers (iterator adaptors of the source).             *)
(***************************************************************************)
Range(s) == {s[i] : i \in 1..Len(s)}

Min(S) == CHOOSE x \in S : \A y \in S : x <= y

\* Iterator::collect(): the Vec of the values of s.  SubSeq is the identity
\* on sequences and yields the sequence as a tuple of values.
Collect(s) == SubSeq(s, 1, Len(s))

\* Iterator::map(..).collect() over the positions 1..n.
MapSeq(n, Op(_)) == Collect([i \in 1..n |-> Op(i)])

\* All the lookups of a list succeeded.
AllSome(ids) == \A i \in 1..Len(ids) : IsSome(ids[i])

\* The values of a list of successful lookups.
UnwrapAll(ids) == Collect([i \in 1..Len(ids) |-> Unwrap(ids[i])])

\* Iterator::flatten / flat_map(..).collect(): concatenation in order.
RECURSIVE ConcatRange(_, _, _)
ConcatRange(ss, lo, hi) ==
    IF lo > hi THEN << >>
    ELSE IF lo = hi THEN ss[lo]
    ELSE LET mid == (lo + hi) \div 2
         IN ConcatRange(ss, lo, mid) \o ConcatRange(ss, mid + 1, hi)
Concat(ss) == ConcatRange(ss, 1, Len(ss))

\* Iterator::filter(..).collect(): the elements satisfying Keep, in order.
Filter(s, Keep(_)) == SelectSeq(s, Keep)

\* itertools::unique(): the first occurrence of every element, in order.
Unique(s) ==
    LET First(i) == \A j \in 1..(i - 1) : s[j] # s[i]
        kept == SelectSeq([i \in 1..Len(s) |-> i], First)
    IN [k \in 1..Len(kept) |-> s[kept[k]]]

\* slice.reverse()
Reverse(s) == Collect([i \in 1..Len(s) |-> s[Len(s) + 1 - i]])

\* A range that takes its upper end in.
RangeVec_Inclusive(a, b) == Collect([i \in 1..(b - a + 1) |-> a + i - 1])
\* 0-based range a..b-1 collected into a Vec.
RangeVec(a, b) == Collect([i \in 1..(b - a) |-> a + i - 1])

(***************************************************************************)
(* Vector kernel: Float and ultraviolet::Vec3 in fixed point.              *)
(***************************************************************************)
Scale == 100

\* a / b rounded to the nearest integer (b > 0), symmetric around 0.
RDiv(a, b) == IF a >= 0 THEN (2 * a + b) \div (2 * b)
              ELSE -((2 * (-a) + b) \div (2 * b))

\* The product of two fixed-point numbers.
FMul(a, b) == RDiv(a * b, Scale)

VZero == <<0, 0, 0>>
VAdd(a, b) == <<a[1] + b[1], a[2] + b[2], a[3] + b[3]>>
VSub(a, b) == <<a[1] - b[1], a[2] - b[2], a[3] - b[3]>>
VNeg(a) == <<-a[1], -a[2], -a[3]>>
\* scalar * vector
VScale(s, v) == <<FMul(s, v[1]), FMul(s, v[2]), FMul(s, v[3])>>
\* vector / count
VDivN(v, n) == <<RDiv(v[1], n), RDiv(v[2], n), RDiv(v[3], n)>>
Cross(a, b) == <<FMul(a[2], b[3]) - FMul(a[3], b[2]),
                 FMul(a[3], b[1]) - FMul(a[1], b[3]),
                 FMul(a[1], b[2]) - FMul(a[2], b[1])>>
\* mag_sq(), in units of 1 / Scale^2 (no rounding).
MagSq(v) == v[1] * v[1] + v[2] * v[2] + v[3] * v[3]

RECURSIVE ISqrtIter(_, _, _)
ISqrtIter(n, lo, hi) ==
    IF lo >= hi THEN lo
    ELSE LET mid == (lo + hi + 1) \div 2
         IN IF mid * mid <= n THEN ISqrtIter(n, mid, hi)
            ELSE ISqrtIter(n, lo, mid - 1)
\* The square root of n, rounded down.
ISqrt(n) == ISqrtIter(n, 0, 46340)

\* mag(), in units of 1 / Scale.
Mag(v) == ISqrt(MagSq(v))

\* normalized(): v / |v|.  The source yields NaN components for the zero
\* vector; the model keeps the zero vector.
Normalized(v) ==
    LET m == Mag(v)
    IN IF m = 0 THEN VZero
       ELSE <<RDiv(v[1] * Scale, m), RDiv(v[2] * Scale, m), RDiv(v[3] * Scale, m)>>

RECURSIVE VSum(_)
VSum(ps) == IF ps = << >> THEN VZero ELSE VAdd(VSum(Tail(ps)), Head(ps))

\* centroid_ref(): the sum of the points divided by their number (NaN for
\* no points in the source; the zero vector here).
centroid_ref(ps) == IF ps = << >> THEN VZero ELSE VDivN(VSum(ps), Len(ps))

\* as_points(): the points of the given indices.
as_points(f, pts) == Collect([i \in 1..Len(f) |-> pts[f[i] + 1]])

\* as_points() indexes points[i] and panics when i is out of bounds.
IndicesInBounds(f, pts) == \A i \in 1..Len(f) : f[i] + 1 <= Len(pts)

orthogonal(v0, v1, v2) == Cross(VSub(v1, v0), VSub(v2, v1))

\* orthogonal(..).mag_sq() < 0.0001
are_collinear(v0, v1, v2) ==
    MagSq(orthogonal(v0, v1, v2)) < (Scale * Scale) \div 10000

\* face_normal(): minus the average of the normalized corner normals over
\* the non-collinear corners; the normalized centroid when all are collinear.
face_normal(ps) ==
    LET n == Len(ps)
        Corner(i) == orthogonal(ps[i], ps[(i % n) + 1], ps[((i + 1) % n) + 1])
        used == {i \in 1..n : ~are_collinear(ps[i], ps[(i % n) + 1], ps[((i + 1) % n) + 1])}
        RECURSIVE Acc(_)
        Acc(i) == IF i = 0 THEN VZero
                  ELSE IF i \in used THEN VSub(Acc(i - 1), Normalized(Corner(i)))
                  ELSE Acc(i - 1)
    IN IF used # {} THEN VDivN(Acc(n), Cardinality(used))
       ELSE Normalized(centroid_ref(ps))

(***************************************************************************)
(* Results of code that may panic.                                         *)
(***************************************************************************)
Ok(v) == [ok |-> TRUE, val |-> v]
Panic == [ok |-> FALSE, val |-> << >>]

\* Every result of a list is a value, and the values of such a list.
AllOk(rs) == \A i \in 1..Len(rs) : rs[i].ok
Vals(rs) == Collect([i \in 1..Len(rs) |-> rs[i].val])

(***************************************************************************)
(* Topology primitives.                                                    *)
(***************************************************************************)
\* index_of() counting positions from 1.
index_of_OneBased(e, list) ==
    LET at == {i \in 1..Len(list) : list[i] = e}
    IN IF at = {} THEN None ELSE Some(Min(at))
\* index_of(): the 0-based position of the first element equal to e.
index_of(e, list) ==
    LET at == {i \in 1..Len(list) : list[i] = e}
    IN IF at = {} THEN None ELSE Some(Min(at) - 1)

\* slice.contains()
Contains(list, e) == \E i \in 1..Len(list) : list[i] = e

\* An edge left in the direction it was given.
distinct_edge_AsGiven(edge) == edge
\* distinct_edge(): the edge with its smaller index first.
distinct_edge(edge) == IF edge[1] < edge[2] THEN edge ELSE <<edge[2], edge[1]>>

\* The n cyclic windows of a face, each with the smaller index first.
distinct_face_edges(face) ==
    LET n == Len(face)
    IN [i \in 1..n |-> IF face[i] < face[(i % n) + 1]
                       THEN <<face[i], face[(i % n) + 1]>>
                       ELSE <<face[(i % n) + 1], face[i]>>]

\* The n directed edges of a face, in winding order.
ordered_face_edges(face) ==
    LET n == Len(face)
    IN [i \in 1..n |-> <<face[i], face[(i % n) + 1]>>]

\* The faces containing vertex_number, in face order.
vertex_faces(vertex_number, faces) ==
    LET Has(face) == Contains(face, vertex_number)
    IN Filter(faces, Has)

\* The faces that carry the edge in the opposite direction.
face_with_edge_Reversed(edge, faces) ==
    LET Has(face) == Contains(ordered_face_edges(face), <<edge[2], edge[1]>>)
    IN Concat(Filter(faces, Has))
\* filter(..).flatten().collect(): the indices of EVERY face that carries the
\* directed edge, concatenated in face order (empty when no face carries it).
face_with_edge(edge, faces) ==
    LET Has(face) == Contains(ordered_face_edges(face), edge)
    IN Concat(Filter(faces, Has))

RECURSIVE ordered_vertex_edges_recurse(_, _, _, _)
ordered_vertex_edges_recurse(v, vfaces, face, k) ==
    IF k < Len(vfaces)
    THEN LET i == index_of(v, face)
         IN IF ~IsSome(i) THEN Panic
            ELSE LET j == (Unwrap(i) + Len(face) - 1) % Len(face)
                     edge == <<v, face[j + 1]>>
                     nface == face_with_edge(edge, vfaces)
                     rest == ordered_vertex_edges_recurse(v, vfaces, nface, k + 1)
                 IN IF rest.ok THEN Ok(<<edge>> \o rest.val) ELSE Panic
    ELSE Ok(<< >>)

ordered_vertex_edges(v, vfaces) ==
    IF vfaces = << >> THEN Ok(<< >>)
    ELSE LET face == vfaces[1]
             i == index_of(v, face)
         IN IF ~IsSome(i) THEN Panic
            ELSE LET j == (Unwrap(i) + Len(face) - 1) % Len(face)
                     edge == <<v, face[j + 1]>>
                     nface == face_with_edge(edge, vfaces)
                     rest == ordered_vertex_edges_recurse(v, vfaces, nface, 1)
                 IN IF rest.ok THEN Ok(<<edge>> \o rest.val) ELSE Panic

RECURSIVE ordered_vertex_faces_recurse(_, _, _, _)
ordered_vertex_faces_recurse(v, faces, cface, k) ==
    IF k < Len(faces)
    THEN LET i == index_of(v, cface)
         IN IF ~IsSome(i) THEN Panic
            ELSE LET j == (Unwrap(i) - 1 + Len(cface)) % Len(cface)
                     edge == <<v, cface[j + 1]>>
                     nface == face_with_edge(edge, faces)
                     rest == ordered_vertex_faces_recurse(v, faces, nface, k + 1)
                 IN IF rest.ok THEN Ok(<<nface>> \o rest.val) ELSE Panic
    ELSE Ok(<< >>)

\* A ring that stops at its first face.
ordered_vertex_faces_FirstOnly(vertex_number, faces) ==
    IF faces = << >> THEN Panic ELSE Ok(<<faces[1]>>)
\* face_index[0] panics on an empty list (a vertex no face contains).
ordered_vertex_faces(vertex_number, faces) ==
    IF faces = << >> THEN Panic
    ELSE LET rest == ordered_vertex_faces_recurse(vertex_number, faces, faces[1], 1)
         IN IF rest.ok THEN Ok(<<faces[1]>> \o rest.val) ELSE Panic

\* Every cyclic window of a face, ascending or not.
AscendingEdges_EveryWindow(face) == ordered_face_edges(face)
\* The ascending cyclic windows of a face, in order.
AscendingEdges(face) ==
    LET Up(e) == e[1] < e[2]
    IN Filter(ordered_face_edges(face), Up)

\* distinct_edges(): per face, the windows of the endless cycle are filtered
\* to the ascending ones BEFORE take(face.len()), so a face contributes its
\* ascending edges (repeated until face.len() are taken); unique() then
\* keeps the first occurrence of each.
distinct_edges(faces) ==
    LET PerFace(f) ==
            LET up == AscendingEdges(faces[f])
            IN IF up = << >> THEN << >>
               ELSE [i \in 1..Len(faces[f]) |-> up[((i - 1) % Len(up)) + 1]]
    IN Unique(Concat(MapSeq(Len(faces), PerFace)))

\* take(face.len()) after the filter never ends on a face without an
\* ascending window (all its indices equal): distinct_edges does not return.
DistinctEdgesReturns(faces) ==
    \A f \in 1..Len(faces) : AscendingEdges(faces[f]) # << >>

\* edge_length(): |p0 - p1|, here squared (units 1 / Scale^2).
EdgeLengthSq(edge, pts) == MagSq(VSub(pts[edge[1] + 1], pts[edge[2] + 1]))

\* face_irregular_faces_onlyity() is longest / shortest edge length; the
\* test (ratio - 1).abs() < 0.1 is longest < 1.1 * shortest, compared on the
\* squares.  A shortest edge of length 0 gives inf or NaN: not regular.
FaceIsRegular(face, pts) ==
    LET sq == {EdgeLengthSq(e, pts) : e \in Range(ordered_face_edges(face))}
        longest == CHOOSE x \in sq : \A y \in sq : y <= x
        shortest == CHOOSE x \in sq : \A y \in sq : x <= y
    IN sq # {} /\ shortest > 0 /\ 100 * longest < 121 * shortest

selected_face(face, face_arity) ==
    IF face_arity = None THEN TRUE ELSE Contains(Unwrap(face_arity), Len(face))

(***************************************************************************)
(* Vertex-id tables.  An entry of a table of new points is <<key, point>>; *)
(* an entry of a table of ids is <<key, index>>.                           *)
(***************************************************************************)
\* Ids that start one past the offset.
vertex_ids_OffByOne(entries, offset) ==
    LET Id(i) == <<entries[i][1], i + offset>>
    IN MapSeq(Len(entries), Id)
\* vertex_ids_edge_ref_ref / vertex_ids_ref_ref / vertex_ids_ref.
vertex_ids(entries, offset) ==
    LET Id(i) == <<entries[i][1], i - 1 + offset>>
    IN MapSeq(Len(entries), Id)

\* A lookup that never finds its key.
vertex_NoMatch(key, entries) == None
\* vertex() / vertex_edge(): the index of the first entry whose key matches.
vertex(key, entries) ==
    LET at == {i \in 1..Len(entries) : entries[i][1] = key}
    IN IF at = {} THEN None ELSE Some(entries[Min(at)][2])

\* The points of a table, last entry first.
vertex_values_Reversed(entries) ==
    Collect([i \in 1..Len(entries) |-> entries[Len(entries) + 1 - i][2]])
\* vertex_values(): the points of a table, in order.
vertex_values(entries) == Collect([i \in 1..Len(entries) |-> entries[i][2]])

\* extend![..v, x]
Extend(v, x) == Append(v, x)

\* Float::clamped(0.0, 1.0)
\* A ratio taken as it comes.
Clamped01_Unclamped(r) == r
\* Float::clamped(0.0, 1.0)
Clamped01(r) == IF r < 0 THEN 0 ELSE IF r > Scale THEN Scale ELSE r

(***************************************************************************)
(* Name formatting.  A name is a sequence of one-character strings.        *)
(***************************************************************************)
Digit(d) == <<"0", "1", "2", "3", "4", "5", "6", "7", "8", "9">>[d + 1]

RECURSIVE DigitsOf(_)
\* "{}" of an unsigned integer.
DigitsOf(n) == IF n < 10 THEN <<Digit(n)>>
               ELSE DigitsOf(n \div 10) \o <<Digit(n % 10)>>

\* "{:.2}" of a Float.
Fmt2(x) ==
    LET a == IF x < 0 THEN -x ELSE x
        c == RDiv(a * 100, Scale)
    IN (IF x < 0 THEN <<"-">> ELSE << >>)
       \o DigitsOf(c \div 100) \o <<".">>
       \o <<Digit((c \div 10) % 10), Digit(c % 10)>>

RECURSIVE CommaList(_)
CommaList(v) == IF v = << >> THEN << >>
                ELSE <<",">> \o DigitsOf(Head(v)) \o CommaList(Tail(v))

\* format_vec(): "" for the empty vector, "3" for [3], "[3,4]" for [3, 4].
format_vec(v) ==
    IF v = << >> THEN << >>
    ELSE IF Len(v) = 1 THEN DigitsOf(v[1])
    ELSE <<"[">> \o DigitsOf(v[1]) \o CommaList(Tail(v)) \o <<"]">>

\* "{:.2}" of a string keeps at most its first two characters.
Trunc2(s) == IF Len(s) <= 2 THEN s ELSE SubSeq(s, 1, 2)

(***************************************************************************)
(* The mesh and its seeds.                                                 *)
(***************************************************************************)
Mesh(p, f, fs, n) ==
    [points |-> p, face_index |-> f, face_set_index |-> fs, name |-> n, ok |-> TRUE]

\* The mesh a panicking call leaves behind: the call never returns.
Panicked(m) == [m EXCEPT !.ok = FALSE]

points_len(m) == Len(m.points)

to_edges(m) == distinct_edges(m.face_index)

\* All indices of all faces index a point (as_points does not panic).
FacesInBounds(m) ==
    \A f \in 1..Len(m.face_index) : IndicesInBounds(m.face_index[f], m.points)

tetrahedron ==
    Mesh(<< <<100, 100, 100>>, <<100, -100, -100>>, <<-100, 100, -100>>,
            <<-100, -100, 100>> >>,
         << <<2, 1, 0>>, <<3, 2, 0>>, <<1, 3, 0>>, <<2, 3, 1>> >>,
         << RangeVec(0, 4) >>,
         <<"T">>)

hexahedron ==
    Mesh(<< <<100, 100, 100>>, <<100, 100, -100>>, <<100, -100, 100>>,
            <<100, -100, -100>>, <<-100, 100, 100>>, <<-100, 100, -100>>,
            <<-100, -100, 100>>, <<-100, -100, -100>> >>,
         << <<4, 5, 1, 0>>, <<2, 6, 4, 0>>, <<1, 3, 2, 0>>,
            <<6, 2, 3, 7>>, <<5, 4, 6, 7>>, <<3, 1, 5, 7>> >>,
         << RangeVec(0, 6) >>,
         <<"C">>)

\* cube(): another name of hexahedron().
cube == hexahedron

octahedron ==
    Mesh(<< <<0, 0, 71>>, <<0, 0, -71>>, <<71, 0, 0>>, <<-71, 0, 0>>,
            <<0, 71, 0>>, <<0, -71, 0>> >>,
         << <<4, 2, 0>>, <<3, 4, 0>>, <<5, 3, 0>>, <<2, 5, 0>>,
            <<5, 2, 1>>, <<3, 5, 1>>, <<4, 3, 1>>, <<2, 4, 1>> >>,
         << RangeVec(0, 8) >>,
         <<"O">>)

dodecahedron ==
    Mesh(<< <<0, 50, 131>>, <<0, 50, -131>>, <<0, -50, 131>>, <<0, -50, -131>>,
            <<131, 0, 50>>, <<131, 0, -50>>, <<-131, 0, 50>>, <<-131, 0, -50>>,
            <<50, 131, 0>>, <<50, -131, 0>>, <<-50, 131, 0>>, <<-50, -131, 0>>,
            <<81, 81, 81>>, <<81, 81, -81>>, <<81, -81, 81>>, <<81, -81, -81>>,
            <<-81, 81, 81>>, <<-81, 81, -81>>, <<-81, -81, 81>>,
            <<-81, -81, -81>> >>,
         << <<12, 4, 14, 2, 0>>, <<16, 10, 8, 12, 0>>, <<2, 18, 6, 16, 0>>,
            <<17, 10, 16, 6, 7>>, <<19, 3, 1, 17, 7>>, <<6, 18, 11, 19, 7>>,
            <<15, 3, 19, 11, 9>>, <<14, 4, 5, 15, 9>>, <<11, 18, 2, 14, 9>>,
            <<8, 10, 17, 1, 13>>, <<5, 4, 12, 8, 13>>, <<1, 3, 15, 5, 13>> >>,
         << RangeVec(0, 12) >>,
         <<"D">>)

icosahedron ==
    Mesh(<< <<50, 0, 81>>, <<50, 0, -81>>, <<-50, 0, 81>>, <<-50, 0, -81>>,
            <<81, 50, 0>>, <<81, -50, 0>>, <<-81, 50, 0>>, <<-81, -50, 0>>,
            <<0, 81, 50>>, <<0, 81, -50>>, <<0, -81, 50>>, <<0, -81, -50>> >>,
         << <<10, 2, 0>>, <<5, 10, 0>>, <<4, 5, 0>>, <<8, 4, 0>>, <<2, 8, 0>>,
            <<6, 8, 2>>, <<7, 6, 2>>, <<10, 7, 2>>, <<11, 7, 10>>, <<5, 11, 10>>,
            <<1, 11, 5>>, <<4, 1, 5>>, <<9, 1, 4>>, <<8, 9, 4>>, <<6, 9, 8>>,
            <<3, 9, 6>>, <<7, 3, 6>>, <<11, 3, 7>>, <<1, 3, 11>>, <<9, 3, 1>> >>,
         << RangeVec(0, 20) >>,
         <<"I">>)

Seeds == {tetrahedron, hexahedron, octahedron, dodecahedron, icosahedron}

(***************************************************************************)
(* Primitive operators.  Each takes the mesh and returns the mesh after    *)
(* the call; a call on a mesh whose previous call panicked never happens.  *)
(***************************************************************************)
\* p0 + ratio * (p1 - p0)
Lerp(p0, p1, ratio) == VAdd(p0, VScale(ratio, VSub(p1, p0)))

\* The face set append_new_face_set(size) pushes.  self.face_index is still
\* the face list the operator was called on when it runs.
append_new_face_set(m, size) ==
    Append(m.face_set_index,
           RangeVec(Len(m.face_index), Len(m.face_index) + size))

\* Polyhedron::points_to_faces: for every vertex, its ordered ring of faces
\* as positions in the face list.
points_to_faces(m) ==
    LET Positions(ids) == IF AllSome(ids) THEN Ok(UnwrapAll(ids)) ELSE Panic
        OfRing(ring) ==
            IF ~ring.ok THEN Panic
            ELSE Positions(Collect([i \in 1..Len(ring.val) |->
                                       index_of(ring.val[i], m.face_index)]))
        FaceOf(v) ==
            OfRing(ordered_vertex_faces(v - 1, vertex_faces(v - 1, m.face_index)))
        Checked(all) == IF AllOk(all) THEN Ok(Vals(all)) ELSE Panic
    IN Checked(MapSeq(Len(m.points), FaceOf))

dual(m, change_name) ==
    LET Made(faces) ==
            IF ~faces.ok THEN Panicked(m)
            ELSE [m EXCEPT
                    !.points = Collect([f \in 1..Len(m.face_index) |->
                                   centroid_ref(as_points(m.face_index[f], m.points))]),
                    !.face_index = faces.val,
                    !.name = IF change_name THEN <<"d">> \o m.name ELSE m.name]
    IN IF ~m.ok THEN m
       ELSE IF ~FacesInBounds(m) THEN Panicked(m)
       ELSE Made(points_to_faces(m))

\* The formatted ratio, when one is given.
RatioParam(ratio) == IF IsSome(ratio) THEN Fmt2(Unwrap(ratio)) ELSE << >>

\* ambo's new_points: the point of every edge, keyed by the edge.
ambo_new_points(m, ratio, edges) ==
    LET ratio_ == IF IsSome(ratio) THEN Clamped01(Unwrap(ratio)) ELSE RDiv(Scale, 2)
    IN Collect([e \in 1..Len(edges) |->
           <<edges[e],
             VAdd(VScale(ratio_, m.points[edges[e][1] + 1]),
                  VScale(Scale - ratio_, m.points[edges[e][2] + 1]))>>])

ambo(m, ratio, change_name) ==
    LET \* filter_map: an edge without an entry is left out of the face.
        FaceOf(f, new_ids) ==
            Concat(Collect([i \in 1..Len(m.face_index[f]) |->
                vertex(distinct_face_edges(m.face_index[f])[i], new_ids)]))
        Flat(ids) == IF AllSome(ids) THEN Ok(Concat(ids)) ELSE Panic
        OfRing(ring, new_ids) ==
            IF ~ring.ok THEN Panic
            ELSE Flat(Collect([i \in 1..Len(ring.val) |->
                          vertex(distinct_edge(ring.val[i]), new_ids)]))
        Made(pts, faces) ==
            [points |-> vertex_values(pts),
             face_index |-> faces,
             face_set_index |-> append_new_face_set(m, Len(faces)),
             name |-> IF change_name
                      THEN <<"a">> \o RatioParam(ratio) \o m.name
                      ELSE m.name,
             ok |-> TRUE]
        Joined(pts, face_part, vertex_part) ==
            IF ~AllOk(vertex_part) THEN Panicked(m)
            ELSE Made(pts, face_part \o Vals(vertex_part))
        WithIds(pts, new_ids) ==
            LET Face(f) == FaceOf(f, new_ids)
                VertexFace(v) ==
                    OfRing(ordered_vertex_edges(v - 1, vertex_faces(v - 1, m.face_index)),
                           new_ids)
            IN Joined(pts, MapSeq(Len(m.face_index), Face),
                      MapSeq(Len(m.points), VertexFace))
        WithEdges(edges) ==
            IF \E e \in 1..Len(edges) : ~IndicesInBounds(edges[e], m.points)
            THEN Panicked(m)
            ELSE WithIds(ambo_new_points(m, ratio, edges),
                         vertex_ids(ambo_new_points(m, ratio, edges), 0))
    IN IF ~m.ok THEN m
       ELSE IF ~DistinctEdgesReturns(m.face_index) THEN Panicked(m)
       ELSE WithEdges(distinct_edges(m.face_index))

\* Triangles that repeat the first corner of the edge.
KisTriangles_RepeatedCorner(face, centroid) ==
    [j \in 1..Len(face) |-> <<face[j], face[j], centroid>>]
\* Triangles that start at the new point.
KisTriangles_ApexFirst(face, centroid) ==
    [j \in 1..Len(face) |-> <<centroid, face[j], face[(j % Len(face)) + 1]>>]
\* The n triangles kis puts in the place of a face.
KisTriangles(face, centroid) ==
    [j \in 1..Len(face) |-> <<face[j], face[(j % Len(face)) + 1], centroid>>]

\* kis's new_points: the raised centroid of every chosen face, keyed by the
\* face.
kis_new_points(m, height, face_arity, regular_faces_only) ==
    LET height_ == IF IsSome(height) THEN Unwrap(height) ELSE 0
        \* `a && !b || c` groups as `(a && !b) || c`.
        Chosen(face) ==
            (selected_face(face, face_arity) /\ ~regular_faces_only)
            \/ FaceIsRegular(face, m.points)
        Centre(face, fp) ==
            <<face, VAdd(centroid_ref(fp), VScale(height_, face_normal(fp)))>>
        NewPoints(chosen) ==
            Collect([i \in 1..Len(chosen) |->
                        Centre(chosen[i], as_points(chosen[i], m.points))])
    IN NewPoints(Filter(m.face_index, Chosen))

kis(m, height, face_arity, regular_faces_only, change_name) ==
    LET Replaced(face, centroid) ==
            IF IsSome(centroid) THEN KisTriangles(face, Unwrap(centroid))
            ELSE <<face>>
        Faces(new_ids) ==
            LET Replace(f) == Replaced(m.face_index[f], vertex(m.face_index[f], new_ids))
            IN Concat(MapSeq(Len(m.face_index), Replace))
        Made(new_points) ==
            [m EXCEPT
               !.points = m.points \o vertex_values(new_points),
               !.face_index = Faces(vertex_ids(new_points, Len(m.points))),
               !.name = IF change_name
                        THEN <<"k">>
                             \o (IF IsSome(height) THEN Fmt2(Unwrap(height)) ELSE << >>)
                             \o (IF IsSome(face_arity)
                                 THEN <<",">> \o Trunc2(format_vec(Unwrap(face_arity)))
                                 ELSE << >>)
                             \o m.name
                        ELSE m.name]
    IN IF ~m.ok THEN m
       ELSE IF ~FacesInBounds(m) THEN Panicked(m)
       ELSE Made(kis_new_points(m, height, face_arity, regular_faces_only))

\* Polyhedron::reverse: every face reversed in place.
\* A reverse that turns every face cycle by one place and keeps its direction.
reverse_AsRotation(m) ==
    IF ~m.ok THEN m
    ELSE [m EXCEPT !.face_index = Collect([f \in 1..Len(m.face_index) |->
                        IF m.face_index[f] = << >> THEN << >>
                        ELSE Tail(m.face_index[f]) \o <<Head(m.face_index[f])>>])]
\* reverse(): every face is reversed in place; nothing else is touched.
reverse(m) ==
    IF ~m.ok THEN m
    ELSE [m EXCEPT !.face_index = Collect([f \in 1..Len(m.face_index) |->
                                              Reverse(m.face_index[f])])]

reflect(m, change_name) ==
    IF ~m.ok THEN m
    ELSE LET flipped == [m EXCEPT !.points = Collect([i \in 1..Len(m.points) |->
                            <<m.points[i][1], -m.points[i][2], m.points[i][3]>>])]
             r == reverse(flipped)
         IN [r EXCEPT !.name = IF change_name THEN <<"r">> \o r.name ELSE r.name]

\* The two entries every undirected edge contributes to a table of directed
\* edge points: the edge with its point at ratio from its first end, and the
\* reversed edge with its point at ratio from its second end.
DirectedEdgePoints(edges, pts, ratio_) ==
    LET Pair(e) ==
            LET p0 == pts[edges[e][1] + 1]
                p1 == pts[edges[e][2] + 1]
            IN << <<edges[e], Lerp(p0, p1, ratio_)>>,
                  << <<edges[e][2], edges[e][1]>>, Lerp(p1, p0, ratio_)>> >>
    IN Concat(MapSeq(Len(edges), Pair))

\* The successor that stays at the last position instead of wrapping.
Succ_NoWrap(j, n) == IF j = n THEN n ELSE j + 1
\* Cyclic successor and predecessor of position j (1-based) in a face of n.
Succ(j, n) == (j % n) + 1
\* The successor taken for the predecessor.
Pred_Forward(j, n) == (j % n) + 1
Pred(j, n) == ((j + n - 2) % n) + 1

\* The faces an operator builds, when every lookup succeeded.
FacesOk(faces) == \A f \in 1..Len(faces) : AllSome(faces[f])
FacesUnwrap(faces) == Collect([f \in 1..Len(faces) |-> UnwrapAll(faces[f])])

\* chamfer's new_points: the corner points of every face, keyed by the face
\* followed by the vertex.
chamfer_new_points(m, ratio) ==
    LET ratio_ == IF IsSome(ratio) THEN Clamped01(Unwrap(ratio)) ELSE RDiv(Scale, 2)
        CornersOf(face, face_points, centroid) ==
            [j \in 1..Len(face) |->
                <<Extend(face, face[j]), Lerp(face_points[j], centroid, ratio_)>>]
        Corners(f) ==
            CornersOf(m.face_index[f], as_points(m.face_index[f], m.points),
                      centroid_ref(as_points(m.face_index[f], m.points)))
    IN Concat(MapSeq(Len(m.face_index), Corners))

chamfer(m, ratio, change_name) ==
    LET ratio_ == IF IsSome(ratio) THEN Clamped01(Unwrap(ratio)) ELSE RDiv(Scale, 2)
        Hexagon(face, a, b, opposite_face, new_ids) ==
            << Some(a),
               vertex(Extend(opposite_face, a), new_ids),
               vertex(Extend(opposite_face, b), new_ids),
               Some(b),
               vertex(Extend(face, b), new_ids),
               vertex(Extend(face, a), new_ids) >>
        \* One hexagon for every ascending directed edge of the face.
        HexagonsOf(face, js, new_ids) ==
            [k \in 1..Len(js) |->
                Hexagon(face, face[js[k]], face[Succ(js[k], Len(face))],
                        face_with_edge(<<face[Succ(js[k], Len(face))], face[js[k]]>>,
                                       m.face_index),
                        new_ids)]
        Faces(new_ids) ==
            LET Shrunk(f) ==
                    LET face == m.face_index[f]
                    IN [j \in 1..Len(face) |-> vertex(Extend(face, face[j]), new_ids)]
                Hexagons(f) ==
                    LET face == m.face_index[f]
                        n == Len(face)
                        Up(j) == face[j] < face[Succ(j, n)]
                    IN HexagonsOf(face, SelectSeq([j \in 1..n |-> j], Up), new_ids)
            IN MapSeq(Len(m.face_index), Shrunk)
               \o Concat(MapSeq(Len(m.face_index), Hexagons))
        \* 1.5 * ratio_
        factor == FMul((3 * Scale) \div 2, ratio_)
        Made(new_points, faces) ==
            IF ~FacesOk(faces) THEN Panicked(m)
            ELSE [points |-> Collect([i \in 1..Len(m.points) |->
                                         VScale(factor, m.points[i])])
                             \o vertex_values(new_points),
                  face_index |-> FacesUnwrap(faces),
                  face_set_index |-> append_new_face_set(m, Len(faces)),
                  name |-> IF change_name
                           THEN <<"c">> \o RatioParam(ratio) \o m.name
                           ELSE m.name,
                  ok |-> TRUE]
        WithPoints(new_points) ==
            Made(new_points, Faces(vertex_ids(new_points, points_len(m))))
    IN IF ~m.ok THEN m
       ELSE IF ~FacesInBounds(m) THEN Panicked(m)
       ELSE WithPoints(chamfer_new_points(m, ratio))

\* The parameters "ratio,height" of gyro, snub and whirl.
RatioHeightParams(ratio, height) ==
    RatioParam(ratio)
    \o (IF IsSome(height) THEN <<",">> \o Fmt2(Unwrap(height)) ELSE << >>)

\* gyro's new_points: the raised centre of every face, keyed by the face,
\* then the two points of every edge.
gyro_new_points(m, ratio, height, edges) ==
    LET ratio_ == IF IsSome(ratio) THEN Clamped01(Unwrap(ratio)) ELSE RDiv(Scale, 3)
        height_ == IF IsSome(height) THEN Unwrap(height) ELSE 0
        CentreOf(face, fp) ==
            <<face, VAdd(Normalized(centroid_ref(fp)), VScale(height_, face_normal(fp)))>>
        Centre(f) == CentreOf(m.face_index[f], as_points(m.face_index[f], m.points))
    IN MapSeq(Len(m.face_index), Centre)
       \o DirectedEdgePoints(edges, m.points, ratio_)

gyro(m, ratio, height, change_name) ==
    LET Faces(new_ids) ==
            LET Pentagons(f) ==
                    LET face == m.face_index[f]
                        n == Len(face)
                    IN [j \in 1..n |->
                           LET a == face[j]
                               b == face[Succ(j, n)]
                               z == face[Pred(j, n)]
                           IN << Some(a),
                                 vertex(<<a, b>>, new_ids),
                                 vertex(face, new_ids),
                                 vertex(<<z, a>>, new_ids),
                                 vertex(<<a, z>>, new_ids) >>]
            IN Concat(MapSeq(Len(m.face_index), Pentagons))
        Made(new_points, faces) ==
            IF ~FacesOk(faces) THEN Panicked(m)
            ELSE [m EXCEPT
                    !.points = m.points \o vertex_values(new_points),
                    !.face_index = FacesUnwrap(faces),
                    !.name = IF change_name
                             THEN <<"g">> \o RatioHeightParams(ratio, height) \o m.name
                             ELSE m.name]
        WithPoints(new_points) ==
            Made(new_points, Faces(vertex_ids(new_points, points_len(m))))
    IN IF ~m.ok THEN m
       ELSE IF ~FacesInBounds(m) \/ ~DistinctEdgesReturns(m.face_index) THEN Panicked(m)
       ELSE WithPoints(gyro_new_points(m, ratio, height, to_edges(m)))

\* propellor's new_points: the two points of every edge.
propellor_new_points(m, ratio, edges) ==
    LET ratio_ == IF IsSome(ratio) THEN Clamped01(Unwrap(ratio)) ELSE RDiv(Scale, 3)
    IN DirectedEdgePoints(edges, m.points, ratio_)

propellor(m, ratio, change_name) ==
    LET Faces(new_ids) ==
            LET Inner(f) ==
                    LET face == m.face_index[f]
                        n == Len(face)
                    IN [j \in 1..n |-> vertex(<<face[j], face[Succ(j, n)]>>, new_ids)]
                Quads(f) ==
                    LET face == m.face_index[f]
                        n == Len(face)
                    IN [j \in 1..n |->
                           LET a == face[j]
                               b == face[Succ(j, n)]
                               z == face[Pred(j, n)]
                           IN << Some(a),
                                 vertex(<<b, a>>, new_ids),
                                 vertex(<<a, b>>, new_ids),
                                 vertex(<<z, a>>, new_ids) >>]
            IN MapSeq(Len(m.face_index), Inner)
               \o Concat(MapSeq(Len(m.face_index), Quads))
        Made(new_points, faces) ==
            IF ~FacesOk(faces) THEN Panicked(m)
            ELSE [m EXCEPT
                    !.points = m.points \o vertex_values(new_points),
                    !.face_index = FacesUnwrap(faces),
                    !.name = IF change_name
                             THEN <<"p">> \o RatioParam(ratio) \o m.name
                             ELSE m.name]
        WithPoints(new_points) ==
            Made(new_points, Faces(vertex_ids(new_points, points_len(m))))
        WithEdges(edges) ==
            IF \E e \in 1..Len(edges) : ~IndicesInBounds(edges[e], m.points)
            THEN Panicked(m)
            ELSE WithPoints(propellor_new_points(m, ratio, edges))
    IN IF ~m.ok THEN m
       ELSE IF ~DistinctEdgesReturns(m.face_index) THEN Panicked(m)
       ELSE WithEdges(to_edges(m))

\* quinto's new_points: the point of every edge, keyed by the edge, then
\* the corner points of every face.
quinto_new_points(m, height, edges) ==
    LET height_ == IF IsSome(height)
                   THEN (IF Unwrap(height) < 0 THEN 0 ELSE Unwrap(height))
                   ELSE RDiv(Scale, 2)
        EdgePart ==
            [e \in 1..Len(edges) |->
                <<edges[e],
                  VScale(height_, VAdd(m.points[edges[e][1] + 1],
                                       m.points[edges[e][2] + 1]))>>]
        \* The key of a corner point is the face followed by the POSITION i
        \* (0-based) of the corner.
        CornersOf(face, edge_points, centroid) ==
            [i \in 1..Len(face) |->
                <<Extend(face, i - 1),
                  VDivN(VAdd(VAdd(edge_points[i], edge_points[Succ(i, Len(face))]),
                             centroid), 3)>>]
        Corners(f) ==
            CornersOf(m.face_index[f], as_points(m.face_index[f], m.points),
                      centroid_ref(as_points(m.face_index[f], m.points)))
    IN EdgePart \o Concat(MapSeq(Len(m.face_index), Corners))

quinto(m, height, change_name) ==
    LET Faces(new_ids) ==
            LET Inner(f) ==
                    LET face == m.face_index[f]
                    IN [i \in 1..Len(face) |-> vertex(Extend(face, i - 1), new_ids)]
                Pentagons(f) ==
                    LET face == m.face_index[f]
                        n == Len(face)
                    IN [i \in 1..n |->
                           LET v == face[i]
                               e0 == <<face[Pred(i, n)], face[i]>>
                               e1 == <<face[i], face[Succ(i, n)]>>
                           IN << Some(v),
                                 vertex(distinct_edge(e1), new_ids),
                                 vertex(Extend(face, i - 1), new_ids),
                                 vertex(Extend(face, Pred(i, n) - 1), new_ids),
                                 vertex(distinct_edge(e0), new_ids) >>]
            IN MapSeq(Len(m.face_index), Inner)
               \o Concat(MapSeq(Len(m.face_index), Pentagons))
        Made(new_points, faces) ==
            IF ~FacesOk(faces) THEN Panicked(m)
            ELSE [m EXCEPT
                    !.points = m.points \o vertex_values(new_points),
                    !.face_index = FacesUnwrap(faces),
                    !.name = IF change_name
                             THEN <<"q">>
                                  \o (IF IsSome(height) THEN Fmt2(Unwrap(height))
                                      ELSE << >>)
                                  \o m.name
                             ELSE m.name]
        WithPoints(new_points) ==
            Made(new_points, Faces(vertex_ids(new_points, points_len(m))))
    IN IF ~m.ok THEN m
       ELSE IF ~FacesInBounds(m) \/ ~DistinctEdgesReturns(m.face_index) THEN Panicked(m)
       ELSE WithPoints(quinto_new_points(m, height, to_edges(m)))

\* whirl's new_points: the points of every face, then the two points of
\* every edge.
whirl_new_points(m, ratio, height, edges) ==
    LET ratio_ == IF IsSome(ratio) THEN Clamped01(Unwrap(ratio)) ELSE RDiv(Scale, 3)
        height_ == IF IsSome(height) THEN Unwrap(height) ELSE 0
        \* The points of a face, keyed by the face followed by the vertex: the
        \* point at ratio_ along each edge, moved towards the centre by ratio_.
        MidsOf(face, face_points, center) ==
            [v \in 1..Len(face) |->
                <<Extend(face, face[v]),
                  Lerp(Lerp(face_points[v], face_points[Succ(v, Len(face))], ratio_),
                       center, ratio_)>>]
        CenterOf(face_points) ==
            VAdd(centroid_ref(face_points), VScale(height_, face_normal(face_points)))
        Mids(f) ==
            MidsOf(m.face_index[f], as_points(m.face_index[f], m.points),
                   CenterOf(as_points(m.face_index[f], m.points)))
    IN Concat(MapSeq(Len(m.face_index), Mids))
       \o DirectedEdgePoints(edges, m.points, ratio_)

whirl(m, ratio, height, change_name) ==
    LET Faces(new_ids) ==
            LET Hexagons(f) ==
                    LET face == m.face_index[f]
                        n == Len(face)
                    IN [j \in 1..n |->
                           LET a == face[j]
                               b == face[Succ(j, n)]
                               c == face[Succ(Succ(j, n), n)]
                           IN << vertex(<<a, b>>, new_ids),
                                 vertex(<<b, a>>, new_ids),
                                 Some(b),
                                 vertex(<<b, c>>, new_ids),
                                 vertex(Extend(face, b), new_ids),
                                 vertex(Extend(face, a), new_ids) >>]
                Inner(f) ==
                    LET face == m.face_index[f]
                    IN [j \in 1..Len(face) |-> vertex(Extend(face, face[j]), new_ids)]
            IN Concat(MapSeq(Len(m.face_index), Hexagons))
               \o MapSeq(Len(m.face_index), Inner)
        Made(new_points, faces) ==
            IF ~FacesOk(faces) THEN Panicked(m)
            ELSE [points |-> m.points \o vertex_values(new_points),
                  face_index |-> FacesUnwrap(faces),
                  face_set_index |->
                      append_new_face_set(m, Len(faces) - Len(m.face_index)),
                  name |-> IF change_name
                           THEN <<"w">> \o RatioHeightParams(ratio, height) \o m.name
                           ELSE m.name,
                  ok |-> TRUE]
        WithPoints(new_points) ==
            Made(new_points, Faces(vertex_ids(new_points, points_len(m))))
    IN IF ~m.ok THEN m
       ELSE IF ~FacesInBounds(m) \/ ~DistinctEdgesReturns(m.face_index) THEN Panicked(m)
       ELSE WithPoints(whirl_new_points(m, ratio, height, to_edges(m)))

(***************************************************************************)
(* Derived operators: the component calls run with change_name = false and *)
(* the derived operator writes its own token.                              *)
(***************************************************************************)
\* The parameters "height,valence,{t}" of needle, truncate and zip.
HeightValenceParams(height, vertex_valence, regular_faces_only) ==
    (IF IsSome(height) THEN Fmt2(Unwrap(height)) ELSE << >>)
    \o (IF IsSome(vertex_valence)
        THEN <<",">> \o format_vec(Unwrap(vertex_valence)) ELSE << >>)
    \o (IF regular_faces_only THEN <<",", "{", "t", "}">> ELSE << >>)

\* The parameters of bevel, medial and meta: the ratio, then the above.
AllParams(ratio, height, vertex_valence, regular_faces_only) ==
    RatioParam(ratio)
    \o HeightValenceParams(height, vertex_valence, regular_faces_only)

\* A name that gets its token whether or not change_name is set.
Renamed_Always(m, change_name, token, params) ==
    IF m.ok THEN [m EXCEPT !.name = <<token>> \o params \o m.name] ELSE m
\* self.name = format!("<token><params><name>") when change_name is set; a
\* call that panicked never gets there.
Renamed(m, change_name, token, params) ==
    IF m.ok /\ change_name
    THEN [m EXCEPT !.name = <<token>> \o params \o m.name]
    ELSE m

\* truncate that leaves out its last dual.
truncate_WithoutLastDual(m, height, vertex_valence, regular_faces_only, change_name) ==
    Renamed(kis(dual(m, FALSE),
                height, vertex_valence, regular_faces_only, FALSE),
            change_name, "t",
            HeightValenceParams(height, vertex_valence, regular_faces_only))
\* truncate(): dual, kis, dual with the parameters given to kis.
truncate(m, height, vertex_valence, regular_faces_only, change_name) ==
    Renamed(dual(kis(dual(m, FALSE),
                     height, vertex_valence, regular_faces_only, FALSE),
                 FALSE),
            change_name, "t",
            HeightValenceParams(height, vertex_valence, regular_faces_only))

\* bevel that does not forward its ratio to ambo.
bevel_RatioDropped(m, ratio, height, vertex_valence, regular_faces_only, change_name) ==
    Renamed(ambo(truncate(m, height, vertex_valence, regular_faces_only, FALSE),
                 None, FALSE),
            change_name, "b",
            AllParams(ratio, height, vertex_valence, regular_faces_only))
bevel(m, ratio, height, vertex_valence, regular_faces_only, change_name) ==
    Renamed(ambo(truncate(m, height, vertex_valence, regular_faces_only, FALSE),
                 ratio, FALSE),
            change_name, "b",
            AllParams(ratio, height, vertex_valence, regular_faces_only))

expand(m, ratio, change_name) ==
    Renamed(ambo(ambo(m, ratio, FALSE), ratio, FALSE),
            change_name, "e", RatioParam(ratio))

\* join that leaves out its last dual.
join_WithoutLastDual(m, ratio, change_name) ==
    Renamed(ambo(dual(m, FALSE), ratio, FALSE),
            change_name, "j", RatioParam(ratio))
\* join(): dual, ambo, dual with the ratio given to ambo.
join(m, ratio, change_name) ==
    Renamed(dual(ambo(dual(m, FALSE), ratio, FALSE), FALSE),
            change_name, "j", RatioParam(ratio))

medial(m, ratio, height, vertex_valence, regular_faces_only, change_name) ==
    Renamed(ambo(truncate(dual(m, FALSE),
                          height, vertex_valence, regular_faces_only, FALSE),
                 ratio, FALSE),
            change_name, "M",
            AllParams(ratio, height, vertex_valence, regular_faces_only))

meta(m, ratio, height, vertex_valence, regular_faces_only, change_name) ==
    Renamed(join(kis(m, height,
                     IF vertex_valence = None THEN Some(<<3>>) ELSE vertex_valence,
                     regular_faces_only, FALSE),
                 ratio, FALSE),
            change_name, "m",
            AllParams(ratio, height, vertex_valence, regular_faces_only))

needle(m, height, vertex_valence, regular_faces_only, change_name) ==
    Renamed(truncate(dual(m, FALSE),
                     height, vertex_valence, regular_faces_only, FALSE),
            change_name, "n",
            HeightValenceParams(height, vertex_valence, regular_faces_only))

ortho(m, ratio, change_name) ==
    Renamed(join(join(m, ratio, FALSE), ratio, FALSE),
            change_name, "o", RatioParam(ratio))

snub(m, ratio, height, change_name) ==
    Renamed(dual(gyro(dual(m, FALSE), ratio, height, FALSE), FALSE),
            change_name, "s", RatioHeightParams(ratio, height))

zip(m, height, vertex_valence, regular_faces_only, change_name) ==
    Renamed(kis(dual(m, FALSE),
                height, vertex_valence, regular_faces_only, FALSE),
            change_name, "z",
            HeightValenceParams(height, vertex_valence, regular_faces_only))

(***************************************************************************)
(* The builder: a seed, then operator calls.                               *)
(***************************************************************************)
\* The arguments the calls are made with.  Every call is made with all its
\* optional arguments None, with and without change_name, and with the
\* further argument lists below.
RatioArgs ==
    { [ratio |-> None, change_name |-> TRUE],
      [ratio |-> None, change_name |-> FALSE],
      [ratio |-> Some(25), change_name |-> TRUE] }

RatioHeightArgs ==
    { [ratio |-> None, height |-> None, change_name |-> TRUE],
      [ratio |-> None, height |-> None, change_name |-> FALSE],
      [ratio |-> Some(25), height |-> Some(50), change_name |-> TRUE] }

HeightArgs ==
    { [height |-> None, change_name |-> TRUE],
      [height |-> None, change_name |-> FALSE],
      [height |-> Some(25), change_name |-> TRUE] }

KisArgs ==
    { [height |-> None, arity |-> None, regular |-> FALSE, change_name |-> TRUE],
      [height |-> None, arity |-> None, regular |-> FALSE, change_name |-> FALSE],
      [height |-> None, arity |-> None, regular |-> TRUE, change_name |-> TRUE],
      [height |-> None, arity |-> Some(<<3>>), regular |-> FALSE, change_name |-> TRUE],
      [height |-> None, arity |-> Some(<<4>>), regular |-> FALSE, change_name |-> TRUE],
      [height |-> Some(50), arity |-> Some(<<4, 5>>), regular |-> TRUE, change_name |-> TRUE] }

AllArgs ==
    { [ratio |-> None, height |-> None, arity |-> None, regular |-> FALSE,
       change_name |-> TRUE],
      [ratio |-> None, height |-> None, arity |-> None, regular |-> FALSE,
       change_name |-> FALSE],
      [ratio |-> None, height |-> None, arity |-> None, regular |-> TRUE,
       change_name |-> TRUE],
      [ratio |-> Some(25), height |-> Some(50), arity |-> Some(<<3>>),
       regular |-> TRUE, change_name |-> TRUE] }

\* The mesh the builder holds.
Cur ==
    [points |-> points, face_index |-> face_index,
     face_set_index |-> face_set_index, name |-> name, ok |-> ~panicked]

\* The record of a call: the operator and its arguments.
Call(op, ratio, height, arity, regular, change_name) ==
    [op |-> op, ratio |-> ratio, height |-> height, arity |-> arity,
     regular |-> regular, change_name |-> change_name]

NoCall == Call("seed", None, None, None, FALSE, FALSE)

\* The parallel loops of a call in progress: the operator, the loop it is in
\* (0 when no call is in progress), the iterations not yet run, the results
\* of those that were, and what the loops before it collected.
NoLoop == [op |-> "none", stage |-> 0, todo |-> {}, slots |-> << >>, outs |-> << >>]

Init ==
    \E seed \in Seeds :
        /\ points = seed.points
        /\ face_index = seed.face_index
        /\ face_set_index = seed.face_set_index
        /\ name = seed.name
        /\ panicked = FALSE
        /\ calls = 0
        /\ last = NoCall
        /\ prev = seed
        /\ par = NoLoop

\* A further call is made on the mesh.
CanCall ==
    /\ ~panicked
    /\ calls < MaxCalls
    /\ (calls = 0 \/ Len(distinct_edges(face_index)) <= MaxEdges)

\* The call `call` turned the mesh into m.
Commit(m, call) ==
    /\ points' = m.points
    /\ face_index' = m.face_index
    /\ face_set_index' = m.face_set_index
    /\ name' = m.name
    /\ panicked' = ~m.ok
    /\ calls' = calls + 1
    /\ last' = call
    /\ prev' = Cur
    /\ par' = NoLoop

Ambo ==
    /\ CanCall
    /\ \E a \in RatioArgs :
          Commit(ambo(Cur, a.ratio, a.change_name),
                 Call("ambo", a.ratio, None, None, FALSE, a.change_name))

Bevel ==
    /\ CanCall
    /\ \E a \in AllArgs :
          Commit(bevel(Cur, a.ratio, a.height, a.arity, a.regular, a.change_name),
                 Call("bevel", a.ratio, a.height, a.arity, a.regular, a.change_name))

Chamfer ==
    /\ CanCall
    /\ \E a \in RatioArgs :
          Commit(chamfer(Cur, a.ratio, a.change_name),
                 Call("chamfer", a.ratio, None, None, FALSE, a.change_name))

Dual ==
    /\ CanCall
    /\ \E change_name \in BOOLEAN :
          Commit(dual(Cur, change_name),
                 Call("dual", None, None, None, FALSE, change_name))

Expand ==
    /\ CanCall
    /\ \E a \in RatioArgs :
          Commit(expand(Cur, a.ratio, a.change_name),
                 Call("expand", a.ratio, None, None, FALSE, a.change_name))

Gyro ==
    /\ CanCall
    /\ \E a \in RatioHeightArgs :
          Commit(gyro(Cur, a.ratio, a.height, a.change_name),
                 Call("gyro", a.ratio, a.height, None, FALSE, a.change_name))

Join ==
    /\ CanCall
    /\ \E a \in RatioArgs :
          Commit(join(Cur, a.ratio, a.change_name),
                 Call("join", a.ratio, None, None, FALSE, a.change_name))

Kis ==
    /\ CanCall
    /\ \E a \in KisArgs :
          Commit(kis(Cur, a.height, a.arity, a.regular, a.change_name),
                 Call("kis", None, a.height, a.arity, a.regular, a.change_name))

Medial ==
    /\ CanCall
    /\ \E a \in AllArgs :
          Commit(medial(Cur, a.ratio, a.height, a.arity, a.regular, a.change_name),
                 Call("medial", a.ratio, a.height, a.arity, a.regular, a.change_name))

Meta ==
    /\ CanCall
    /\ \E a \in AllArgs :
          Commit(meta(Cur, a.ratio, a.height, a.arity, a.regular, a.change_name),
                 Call("meta", a.ratio, a.height, a.arity, a.regular, a.change_name))

Needle ==
    /\ CanCall
    /\ \E a \in KisArgs :
          Commit(needle(Cur, a.height, a.arity, a.regular, a.change_name),
                 Call("needle", None, a.height, a.arity, a.regular, a.change_name))

Ortho ==
    /\ CanCall
    /\ \E a \in RatioArgs :
          Commit(ortho(Cur, a.ratio, a.change_name),
                 Call("ortho", a.ratio, None, None, FALSE, a.change_name))

Propellor ==
    /\ CanCall
    /\ \E a \in RatioArgs :
          Commit(propellor(Cur, a.ratio, a.change_name),
                 Call("propellor", a.ratio, None, None, FALSE, a.change_name))

Quinto ==
    /\ CanCall
    /\ \E a \in HeightArgs :
          Commit(quinto(Cur, a.height, a.change_name),
                 Call("quinto", None, a.height, None, FALSE, a.change_name))

Reflect ==
    /\ CanCall
    /\ \E change_name \in BOOLEAN :
          Commit(reflect(Cur, change_name),
                 Call("reflect", None, None, None, FALSE, change_name))

Snub ==
    /\ CanCall
    /\ \E a \in RatioHeightArgs :
          Commit(snub(Cur, a.ratio, a.height, a.change_name),
                 Call("snub", a.ratio, a.height, None, FALSE, a.change_name))

Truncate ==
    /\ CanCall
    /\ \E a \in KisArgs :
          Commit(truncate(Cur, a.height, a.arity, a.regular, a.change_name),
                 Call("truncate", None, a.height, a.arity, a.regular, a.change_name))

Whirl ==
    /\ CanCall
    /\ \E a \in RatioHeightArgs :
          Commit(whirl(Cur, a.ratio, a.height, a.change_name),
                 Call("whirl", a.ratio, a.height, None, FALSE, a.change_name))

Zip ==
    /\ CanCall
    /\ \E a \in KisArgs :
          Commit(zip(Cur, a.height, a.arity, a.regular, a.change_name),
                 Call("zip", None, a.height, a.arity, a.regular, a.change_name))

Next ==
    \/ Ambo \/ Bevel \/ Chamfer \/ Dual \/ Expand \/ Gyro \/ Join \/ Kis
    \/ Medial \/ Meta \/ Needle \/ Ortho \/ Propellor \/ Quinto \/ Reflect
    \/ Snub \/ Truncate \/ Whirl \/ Zip

Spec == Init /\ [][Next]_vars

(***************************************************************************)
(* Meshes the caller supplies, and the operations that work on any mesh.   *)
(***************************************************************************)
\* Polyhedron::from(): a mesh of the caller's name, points and faces;
\* face_set_index.unwrap_or_default() is the empty list for None.
from(mesh_name, pts, faces, face_sets) ==
    Mesh(pts, faces, IF IsSome(face_sets) THEN Unwrap(face_sets) ELSE << >>,
         mesh_name)

\* A triangulate that makes a fan from face[0] of every face.
triangulate_AllFans(m, shortest) ==
    IF ~m.ok THEN m
    ELSE IF \E f \in 1..Len(m.face_index) : Len(m.face_index[f]) < 2
         THEN Panicked(m)
         ELSE [m EXCEPT !.face_index =
                  Concat(Collect([f \in 1..Len(m.face_index) |->
                      Collect([i \in 1..(Len(m.face_index[f]) - 2) |->
                          <<m.face_index[f][1], m.face_index[f][i + 1],
                            m.face_index[f][i + 2]>>])]))]
\* triangulate(): every face is replaced by its triangles, flat_map keeps
\* face order.  A quad is split along (0,2) when
\* shortest == (|p0 - p2|^2 < |p1 - p3|^2), along (1,3) otherwise; a pentagon
\* has a fixed pattern; every other face is a fan from face[0], where
\* face[0] and face[1] are read before the fan is built.
triangulate(m, shortest) ==
    LET Quad(face) ==
            IF ~IndicesInBounds(face, m.points) THEN Panic
            ELSE LET p == as_points(face, m.points)
                 IN IF shortest = (MagSq(VSub(p[1], p[3])) < MagSq(VSub(p[2], p[4])))
                    THEN Ok(<< <<face[1], face[2], face[3]>>,
                               <<face[1], face[3], face[4]>> >>)
                    ELSE Ok(<< <<face[2], face[3], face[4]>>,
                               <<face[2], face[4], face[1]>> >>)
        Fan(face) ==
            IF Len(face) < 2 THEN Panic
            ELSE Ok(Collect([i \in 1..(Len(face) - 2) |->
                        <<face[1], face[i + 1], face[i + 2]>>]))
        Triangles(face) ==
            IF Len(face) = 4 THEN Quad(face)
            ELSE IF Len(face) = 5
                 THEN Ok(<< <<face[1], face[2], face[5]>>,
                            <<face[2], face[3], face[5]>>,
                            <<face[5], face[3], face[4]>> >>)
                 ELSE Fan(face)
        Made(parts) ==
            IF ~AllOk(parts) THEN Panicked(m)
            ELSE [m EXCEPT !.face_index = Concat(Vals(parts))]
        OfFace(f) == Triangles(m.face_index[f])
    IN IF ~m.ok THEN m ELSE Made(MapSeq(Len(m.face_index), OfFace))

\* The points and the faces a caller's mesh is made of.
MaxFromFaces == 3

FromPoints ==
    << <<0, 0, 0>>, <<100, 0, 0>>, <<100, 100, 0>>, <<0, 100, 0>>,
       <<0, 0, 100>>, <<300, 100, 100>> >>

FromFaces ==
    { <<0, 1, 2>>, <<2, 0, 1>>, <<3, 0, 4>>, <<4, 0, 3>>,
      <<0, 1, 2, 3>>, <<1, 2, 3, 4>>, <<2, 3, 4, 1>>,
      <<0, 1, 2, 3, 4>>, <<0, 1, 2, 3, 4, 5>> }

\* Face lists of one to MaxFromFaces faces, closed or not, manifold or not.
FromMeshes ==
    { from(<<"X">>, FromPoints, faces, None) :
        faces \in UNION { [1..n -> FromFaces] : n \in 1..MaxFromFaces } }

InitFrom ==
    \E m \in Seeds \cup FromMeshes :
        /\ points = m.points
        /\ face_index = m.face_index
        /\ face_set_index = m.face_set_index
        /\ name = m.name
        /\ panicked = FALSE
        /\ calls = 0
        /\ last = NoCall
        /\ prev = m
        /\ par = NoLoop

ReverseWinding ==
    /\ CanCall
    /\ Commit(reverse(Cur), Call("reverse", None, None, None, FALSE, FALSE))

\* The record of a triangulate call carries its one argument.
TriangulateCall(shortest) ==
    [op |-> "triangulate", ratio |-> None, height |-> None, arity |-> None,
     regular |-> FALSE, change_name |-> FALSE, shortest |-> shortest]

Triangulate ==
    /\ CanCall
    /\ \E shortest \in BOOLEAN :
          Commit(triangulate(Cur, shortest), TriangulateCall(shortest))

\* Ratios at and beyond the ends of [0, 1]: 0, 1, -0.5 and 1.5.
EndRatios == {0, Scale, -50, 150}

\* ambo called with such a ratio.
AmboEndRatio ==
    /\ CanCall
    /\ \E r \in EndRatios :
          Commit(ambo(Cur, Some(r), TRUE),
                 Call("ambo", Some(r), None, None, FALSE, TRUE))

NextFrom == Ambo \/ AmboEndRatio \/ Dual \/ ReverseWinding \/ Triangulate

SpecFrom == InitFrom /\ [][NextFrom]_vars

(***************************************************************************)
(* The parallel loops of dual and ambo, run one iteration at a time in any *)
(* order.                                                                  *)
(***************************************************************************)
\* A call is run loop by loop only on a mesh none of whose loops has more
\* than MaxParLen iterations.
MaxParLen == 8

\* par_iter().find_first(): the entries are searched in any order; a match
\* ends the search of the entries behind it while the search of the entries
\* before it goes on, so the match returned is the first in entry order,
\* whichever match was hit first (here the first or the last of them).
find_first(key, entries, hit_last) ==
    LET at == {i \in 1..Len(entries) : entries[i][1] = key}
        hit == IF hit_last THEN CHOOSE i \in at : \A j \in at : j <= i
               ELSE Min(at)
    IN IF at = {} THEN None
       ELSE Some(entries[Min({i \in at : i <= hit})][2])

\* dual, first loop: the centroid of face f.
dual_new_point(m, f) ==
    IF ~IndicesInBounds(m.face_index[f], m.points) THEN Panic
    ELSE Ok(centroid_ref(as_points(m.face_index[f], m.points)))

\* dual, second loop (points_to_faces): the ring of faces around vertex v as
\* positions in the face list.
dual_new_face(m, v) ==
    LET ring == ordered_vertex_faces(v - 1, vertex_faces(v - 1, m.face_index))
        Positions(ids) == IF AllSome(ids) THEN Ok(UnwrapAll(ids)) ELSE Panic
    IN IF ~ring.ok THEN Panic
       ELSE Positions(Collect([i \in 1..Len(ring.val) |->
                                  index_of(ring.val[i], m.face_index)]))

\* ambo, first loop: edge e with its point, at the default ratio 1/2.
ambo_edge_point(m, e) ==
    LET edge == distinct_edges(m.face_index)[e]
        ratio_ == RDiv(Scale, 2)
    IN IF ~IndicesInBounds(edge, m.points) THEN Panic
       ELSE Ok(<<edge, VAdd(VScale(ratio_, m.points[edge[1] + 1]),
                            VScale(Scale - ratio_, m.points[edge[2] + 1]))>>)

\* ambo, second loop (vertex_ids_edge_ref_ref with offset 0): entry i.
ambo_new_id(entries, i) == Ok(<<entries[i][1], i - 1>>)

\* ambo, third loop: the face of face f; filter_map leaves out the edges the
\* search finds nothing for.
ambo_face(m, new_ids, f, hit_last) ==
    Ok(Concat(Collect([i \in 1..Len(m.face_index[f]) |->
           find_first(distinct_face_edges(m.face_index[f])[i], new_ids, hit_last)])))

\* ambo, fourth loop: the face of vertex v; every search result is unwrapped.
ambo_vertex_face(m, new_ids, v, hit_last) ==
    LET ring == ordered_vertex_edges(v - 1, vertex_faces(v - 1, m.face_index))
        Flat(ids) == IF AllSome(ids) THEN Ok(Concat(ids)) ELSE Panic
    IN IF ~ring.ok THEN Panic
       ELSE Flat(Collect([i \in 1..Len(ring.val) |->
                    find_first(distinct_edge(ring.val[i]), new_ids, hit_last)]))

ParOps == {"dual", "ambo"}

\* The number of parallel loops of an operator.
ParLoops(op) == IF op = "dual" THEN 2 ELSE 4

\* The number of iterations of loop `stage` of op on m.
ParLen(op, stage, m) ==
    IF op = "dual"
    THEN (IF stage = 1 THEN Len(m.face_index) ELSE Len(m.points))
    ELSE IF stage <= 2 THEN Len(distinct_edges(m.face_index))
    ELSE IF stage = 3 THEN Len(m.face_index)
    ELSE Len(m.points)

\* What iteration i of loop `stage` of op computes from the mesh and from
\* what the loops before it collected.
ParIter(op, stage, m, outs, i, hit_last) ==
    IF op = "dual"
    THEN (IF stage = 1 THEN dual_new_point(m, i) ELSE dual_new_face(m, i))
    ELSE IF stage = 1 THEN ambo_edge_point(m, i)
    ELSE IF stage = 2 THEN ambo_new_id(outs[1], i)
    ELSE IF stage = 3 THEN ambo_face(m, outs[2], i, hit_last)
    ELSE ambo_vertex_face(m, outs[2], i, hit_last)

\* A result that is kept in the first free place, in the order of arrival.
par_store_NextFree(slots, i, r) ==
    [slots EXCEPT ![Min({k \in 1..Len(slots) : slots[k] = None})] = Some(r)]
\* collect() of an indexed parallel iterator: the result of iteration i is
\* written to place i of the Vec, whenever it arrives.
par_store(slots, i, r) == [slots EXCEPT ![i] = Some(r)]

\* The Vec collected once every iteration has run.
par_collect(slots) == Collect([i \in 1..Len(slots) |-> Unwrap(slots[i]).val])

\* A worker panicked: the panic is carried to the caller.
ParPanicked(slots) == \E i \in 1..Len(slots) : ~Unwrap(slots[i]).ok

\* The loop `stage`, about to start.
ParLoop(op, stage, m, outs) ==
    [op |-> op, stage |-> stage, todo |-> 1..ParLen(op, stage, m),
     slots |-> [i \in 1..ParLen(op, stage, m) |-> None], outs |-> outs]

\* The mesh the operator leaves, made of what its loops collected.
ParMesh(op, m, outs) ==
    IF op = "dual"
    THEN [m EXCEPT !.points = outs[1], !.face_index = outs[2]]
    ELSE [points |-> vertex_values(outs[1]),
          face_index |-> outs[3] \o outs[4],
          face_set_index |-> append_new_face_set(m, Len(outs[3] \o outs[4])),
          name |-> m.name,
          ok |-> TRUE]

\* dual(false) or ambo(None, false) is called and enters its first loop.
ParStart ==
    /\ par.stage = 0
    /\ ~panicked
    /\ calls = 0
    /\ \E op \in ParOps :
          /\ \A stage \in 1..ParLoops(op) : ParLen(op, stage, Cur) <= MaxParLen
          /\ par' = ParLoop(op, 1, Cur, << >>)
    /\ UNCHANGED <<points, face_index, face_set_index, name, panicked, calls,
                   last, prev>>

\* Some worker runs some iteration that has not run yet.
ParWork ==
    /\ par.stage > 0
    /\ \E i \in par.todo, hit_last \in BOOLEAN :
          par' = [par EXCEPT
                    !.todo = @ \ {i},
                    !.slots = par_store(@, i,
                                  ParIter(par.op, par.stage, Cur, par.outs, i,
                                          hit_last))]
    /\ UNCHANGED <<points, face_index, face_set_index, name, panicked, calls,
                   last, prev>>

\* A loop that is not the last has run every iteration: its results are
\* collected and the next loop starts.
ParJoin ==
    /\ par.stage > 0
    /\ par.stage < ParLoops(par.op)
    /\ par.todo = {}
    /\ IF ParPanicked(par.slots)
       THEN Commit(Panicked(Cur), Call(par.op, None, None, None, FALSE, FALSE))
       ELSE /\ par' = ParLoop(par.op, par.stage + 1, Cur,
                              Append(par.outs, par_collect(par.slots)))
            /\ UNCHANGED <<points, face_index, face_set_index, name, panicked,
                           calls, last, prev>>

\* The last loop has run every iteration: the operator assigns the mesh.
ParFinish ==
    /\ par.stage > 0
    /\ par.stage = ParLoops(par.op)
    /\ par.todo = {}
    /\ Commit(IF ParPanicked(par.slots) THEN Panicked(Cur)
              ELSE ParMesh(par.op, Cur, Append(par.outs, par_collect(par.slots))),
              Call(par.op, None, None, None, FALSE, FALSE))

NextPar == ParStart \/ ParWork \/ ParJoin \/ ParFinish

SpecPar == Init /\ [][NextPar]_vars

(***************************************************************************)
(* Properties of the meshes the builder reaches.                           *)
(***************************************************************************)
\* The operator of the last call was applied to prev and gave the mesh held.
After(op) == calls > 0 /\ last.op = op /\ ~panicked

\* A face of the mesh held uses a point the last call added:
\* the points a call adds are indexed from Len(prev.points) on.
UsesNewPoint ==
    \E f \in 1..Len(face_index) : \E i \in 1..Len(face_index[f]) :
        face_index[f][i] >= Len(prev.points)

\* C1: in every mesh reached from a seed by operator calls, every index that
\* occurs in a face is smaller than the number of points of the mesh.
C1_IndicesInRange ==
    \A f \in 1..Len(face_index) : \A i \in 1..Len(face_index[f]) :
        face_index[f][i] \in 0..(Len(points) - 1)

\* A second call was a quinto that added points its faces use.
C1_Witness ==
    /\ After("quinto") /\ calls >= 2
    /\ Len(points) > Len(prev.points)
    /\ UsesNewPoint

\* C2: in every mesh reached from a seed by operator calls, every face has at
\* least 3 indices and no two cyclically adjacent indices of a face are equal.
C2_FacesWellFormed ==
    \A f \in 1..Len(face_index) :
        LET face == face_index[f]
        IN /\ Len(face) >= 3
           /\ \A i \in 1..Len(face) : face[i] # face[(i % Len(face)) + 1]

\* A kis replaced faces by triangles around new centre points.
C2_Witness ==
    /\ After("kis")
    /\ Len(face_index) > Len(prev.face_index)
    /\ \E f \in 1..Len(face_index) :
          Len(face_index[f]) = 3 /\ face_index[f][3] >= Len(prev.points)

\* V - E + F of a mesh, E the number of edges to_edges() returns.
EulerCharacteristic(m) ==
    points_len(m) - Len(to_edges(m)) + Len(m.face_index)

\* C3: every seed has V - E + F = 2 and every operator applied to a mesh with
\* V - E + F = 2 gives a mesh with V - E + F = 2, so the equation holds after
\* any sequence of operator calls on a seed.
C3_Euler == ~panicked => EulerCharacteristic(Cur) = 2

\* A second call was a whirl, which changed V, E and F.
C3_Witness ==
    /\ After("whirl") /\ calls >= 2
    /\ Len(points) > Len(prev.points)
    /\ Len(face_index) > Len(prev.face_index)
    /\ EulerCharacteristic(Cur) = 2

\* C4: every operator call that produces faces makes the face-set list one
\* longer, so the number of face sets is the number of calls made so far plus
\* one for the seed's own face set.  Every operator produces faces.
C4_OneFaceSetPerCall ==
    ~panicked => Len(face_set_index) = calls + 1

\* C5: the face set appended by a call of ambo, chamfer or whirl is exactly
\* the indices 0 .. F' - 1, F' the number of faces after the call; so every
\* index in it is a valid index into the new face list.
C5_FaceSetIsNewFaceRange ==
    (After("ambo") \/ After("chamfer") \/ After("whirl")) =>
        /\ Len(face_set_index) = Len(prev.face_set_index) + 1
        /\ face_set_index[Len(face_set_index)] = RangeVec(0, Len(face_index))

\* A component step of a derived operator: a call with change_name = false.
Step(op, ratio, height, arity, regular) ==
    Call(op, ratio, height, arity, regular, FALSE)

\* The primitive a step calls.
RunStep(m, st) ==
    CASE st.op = "ambo" -> ambo(m, st.ratio, FALSE)
      [] st.op = "dual" -> dual(m, FALSE)
      [] st.op = "gyro" -> gyro(m, st.ratio, st.height, FALSE)
      [] st.op = "kis" -> kis(m, st.height, st.arity, st.regular, FALSE)

RECURSIVE RunSteps(_, _)
\* The steps run in order.
RunSteps(m, steps) ==
    IF steps = << >> THEN m
    ELSE RunSteps(RunStep(m, Head(steps)), Tail(steps))

DerivedOps ==
    {"bevel", "expand", "join", "medial", "meta", "needle", "ortho", "snub",
     "truncate", "zip"}

\* The listed component sequence of the derived call c, down to primitives:
\* height, vertex_valence and regular_faces_only go to the kis step, ratio to
\* the ambo and gyro steps, and gyro_height is the height the gyro step gets.
ComponentSteps(c, gyro_height) ==
    LET D == Step("dual", None, None, None, FALSE)
        A == Step("ambo", c.ratio, None, None, FALSE)
        K == Step("kis", None, c.height, c.arity, c.regular)
        K3 == Step("kis", None, c.height,
                   IF c.arity = None THEN Some(<<3>>) ELSE c.arity, c.regular)
        G == Step("gyro", c.ratio, gyro_height, None, FALSE)
        join_ == <<D, A, D>>
        truncate_ == <<D, K, D>>
    IN CASE c.op = "bevel" -> truncate_ \o <<A>>
         [] c.op = "expand" -> <<A, A>>
         [] c.op = "join" -> join_
         [] c.op = "medial" -> <<D>> \o truncate_ \o <<A>>
         [] c.op = "meta" -> <<K3>> \o join_
         [] c.op = "needle" -> <<D>> \o truncate_
         [] c.op = "ortho" -> join_ \o join_
         [] c.op = "snub" -> <<D, G, D>>
         [] c.op = "truncate" -> truncate_
         [] c.op = "zip" -> <<D, K>>

\* The mesh held has the points and faces of r, the outcome of the steps.
SameGeometry(r) ==
    /\ panicked = ~r.ok
    /\ r.ok => (points = r.points /\ face_index = r.face_index)

\* C6 (amended): every derived operator leaves the points and faces of its
\* listed component sequence run in order with name changes off; height,
\* vertex_valence and regular_faces_only go to the kis/truncate step, ratio
\* to the ambo/join/gyro step, and the height of snub goes to its gyro step.
C6_DerivedIsComposition ==
    (calls > 0 /\ last.op \in DerivedOps) =>
        SameGeometry(RunSteps(prev, ComponentSteps(last, last.height)))

\* C6 as stated: height goes to kis/truncate steps only, so the gyro step of
\* snub gets the ratio and no height.
C6_HeightToKisOnly ==
    (calls > 0 /\ last.op \in DerivedOps) =>
        SameGeometry(RunSteps(prev, ComponentSteps(last, None)))

\* A medial and a snub with all their parameters given were the second call.
C6_Witness ==
    /\ calls >= 2 /\ ~panicked
    /\ \/ /\ last.op = "medial"
          /\ IsSome(last.ratio) /\ IsSome(last.height) /\ IsSome(last.arity)
       \/ /\ last.op = "snub"
          /\ IsSome(last.ratio) /\ IsSome(last.height)
    /\ Len(points) > Len(prev.points)

\* b is a with its cycle started at another position, in the same direction.
IsRotation(a, b) ==
    /\ Len(a) = Len(b)
    /\ \E k \in 0..(Len(a) - 1) :
          \A i \in 1..Len(a) : a[i] = b[((i - 1 + k) % Len(b)) + 1]

DualDual(m) == dual(dual(m, FALSE), FALSE)

\* C7: on every mesh reached from a seed, dual applied twice gives a mesh
\* with the same number of points, edges and faces, every face of which is,
\* under a relabelling of the vertex indices, a rotation in the same winding
\* direction of a face of the mesh.  The relabelling is the identity: face f
\* of the result is a rotation of face f of the mesh.
C7_DualDualIsIdentity ==
    ~panicked =>
        LET dd == DualDual(Cur)
        IN /\ dd.ok
           /\ points_len(dd) = Len(points)
           /\ Len(to_edges(dd)) = Len(to_edges(Cur))
           /\ Len(dd.face_index) = Len(face_index)
           /\ \A f \in 1..Len(face_index) :
                 IsRotation(dd.face_index[f], face_index[f])

\* A mesh an operator made on which dual applied twice rotates a face cycle.
C7_Witness ==
    /\ calls >= 1 /\ ~panicked
    /\ Len(face_index) > Len(prev.face_index)
    /\ LET dd == DualDual(Cur)
       IN /\ dd.ok
          /\ \E f \in 1..Len(face_index) :
                /\ dd.face_index[f] # face_index[f]
                /\ IsRotation(dd.face_index[f], face_index[f])

\* The last call was a kis with the given regular_faces_only and a
\* face_arity filter.
KisWithFilter(regular_faces_only) ==
    /\ calls > 0 /\ last.op = "kis"
    /\ last.regular = regular_faces_only
    /\ IsSome(last.arity)

\* The arity of the face is in the face_arity filter of the last call.
ArityInFilter(face) == Contains(Unwrap(last.arity), Len(face))

\* kis left face f of prev as it was: the face is a face of the mesh held.
Preserved(f) == Contains(face_index, prev.face_index[f])

\* C8: kis with regular_faces_only = false and a face_arity filter that
\* matches no face of the mesh adds no point and leaves the face list as it
\* was, whatever the edge lengths of the faces are.
C8_KisEmptySelectionUnchanged ==
    (/\ KisWithFilter(FALSE)
     /\ \A f \in 1..Len(prev.face_index) : ~ArityInFilter(prev.face_index[f]))
    => (points = prev.points /\ face_index = prev.face_index)

\* C9: kis with regular_faces_only = true and a face_arity filter replaces a
\* face only if its arity is in the filter and it is regular; every face
\* whose arity is not in the filter is preserved, even when it is regular.
C9_KisRegularOnlyKeepsOtherArities ==
    KisWithFilter(TRUE) =>
        \A f \in 1..Len(prev.face_index) :
            LET face == prev.face_index[f]
            IN /\ ~Preserved(f) =>
                    (ArityInFilter(face) /\ FaceIsRegular(face, prev.points))
               /\ ~ArityInFilter(face) => Preserved(f)

\* C10: no operator call panics on a mesh reached from a seed by operator
\* calls; every call returns a mesh.
C10_NoPanic == ~panicked

\* A second call was a chamfer, whose every key lookup is unwrapped, on a
\* mesh a first call made; it returned a mesh with new faces.
C10_Witness ==
    /\ After("chamfer") /\ calls >= 2
    /\ Len(face_index) > Len(prev.face_index)
    /\ Len(prev.points) > 0

(***************************************************************************)
(* Lookups that find nothing.                                              *)
(***************************************************************************)
\* ambo on m looks up, for some face, an edge its table of edge points has
\* no entry for: the table's keys are the edges distinct_edges returns.
AmboLookupMissing(m) ==
    /\ DistinctEdgesReturns(m.face_index)
    /\ FacesInBounds(m)
    /\ \E f \in 1..Len(m.face_index) :
          \E i \in 1..Len(m.face_index[f]) :
             ~IsSome(vertex(distinct_face_edges(m.face_index[f])[i],
                            vertex_ids(Collect([e \in 1..Len(distinct_edges(m.face_index)) |->
                                           <<distinct_edges(m.face_index)[e], VZero>>]), 0)))

\* C11: a call of ambo on a mesh where a face's edge is absent from the
\* table of edge points never completes: it panics, whatever mesh the caller
\* built.
C11_MissingLookupPanics ==
    (calls > 0 /\ last.op = "ambo" /\ AmboLookupMissing(prev)) => panicked

(***************************************************************************)
(* Names.                                                                  *)
(***************************************************************************)
\* The letter of every operator.
TokenOf ==
    [ambo |-> "a", bevel |-> "b", chamfer |-> "c", dual |-> "d", expand |-> "e",
     gyro |-> "g", join |-> "j", kis |-> "k", medial |-> "M", meta |-> "m",
     needle |-> "n", ortho |-> "o", propellor |-> "p", quinto |-> "q",
     reflect |-> "r", snub |-> "s", truncate |-> "t", whirl |-> "w", zip |-> "z"]

\* The last call was an operator call whose Option parameters were all None.
OptionalsNone ==
    /\ calls > 0 /\ ~panicked
    /\ last.op \in DOMAIN TokenOf
    /\ last.ratio = None /\ last.height = None /\ last.arity = None

\* The name is the name before the call, behind the operator's letter when
\* the call was to change the name.
NameIsTokenOnPrev ==
    name = (IF last.change_name THEN <<TokenOf[last.op]>> ELSE << >>) \o prev.name

\* C12: a call with every Option parameter None and regular_faces_only false
\* puts exactly its operator's letter in front of the name when change_name
\* is set and leaves the name alone when it is not; the component calls of a
\* derived operator add nothing.
C12_NameTokens == (OptionalsNone /\ ~last.regular) => NameIsTokenOnPrev

\* C12 as stated: the same for every call with every Option parameter None,
\* whatever regular_faces_only is.
C12_NameTokensAnyFlag == OptionalsNone => NameIsTokenOnPrev

\* A second naming call, of a derived operator, on a named mesh.
C12_Witness ==
    /\ OptionalsNone /\ ~last.regular /\ last.change_name
    /\ calls >= 2
    /\ last.op = "medial"
    /\ Len(prev.name) = 2
    /\ name = <<"M">> \o prev.name

(***************************************************************************)
(* The shape of what dual, ambo, truncate and join make.                   *)
(***************************************************************************)
\* The positions (0-based) of the faces of m that contain vertex v.
FacesAt(v, m) ==
    {f - 1 : f \in {g \in 1..Len(m.face_index) : Contains(m.face_index[g], v)}}

\* The edges, of a list of edges, that end in vertex v.
EdgesAt(v, edges) ==
    {e \in 1..Len(edges) : edges[e][1] = v \/ edges[e][2] = v}

\* The valence of a vertex of a closed mesh: as many faces as edges meet there.
Valence(v, m) == Cardinality(FacesAt(v, m))

\* The number of faces of m with n indices.
FacesOfArity(n, m) ==
    Cardinality({f \in 1..Len(m.face_index) : Len(m.face_index[f]) = n})

\* d is to m what the claim says of dual: a point per face of m, a face per
\* vertex of m that lists the faces at that vertex once each, as many edges.
DualShape(m, d) ==
    LET Shape(edges) ==
            /\ Len(d.points) = Len(m.face_index)
            /\ \A f \in 1..Len(m.face_index) :
                  d.points[f] = centroid_ref(as_points(m.face_index[f], m.points))
            /\ Len(d.face_index) = Len(m.points)
            /\ \A v \in 1..Len(m.points) :
                  /\ Range(d.face_index[v]) = FacesAt(v - 1, m)
                  /\ Len(d.face_index[v]) = Valence(v - 1, m)
                  /\ Valence(v - 1, m) = Cardinality(EdgesAt(v - 1, edges))
            /\ Len(to_edges(d)) = Len(edges)
    IN d.ok /\ Shape(to_edges(m))

\* C13: dual of a mesh reached from a seed has point i for face i of the
\* mesh and face v for vertex v, and face v lists every face of the mesh that
\* contains v exactly once; so V' = F, F' = V, E' = E and the arity of face v
\* is the valence of v.
C13_DualShape == ~panicked => DualShape(Cur, dual(Cur, FALSE))

\* hexahedron().dual(): 6 points, 12 edges, 8 triangles.
C13_Witness ==
    /\ After("dual") /\ calls = 1
    /\ prev = hexahedron
    /\ Len(points) = 6 /\ Len(to_edges(Cur)) = 12 /\ Len(face_index) = 8
    /\ FacesOfArity(3, Cur) = 8
    /\ DualShape(prev, Cur)

\* a is to m what the claim says of ambo: a point per edge of m; the faces
\* of m, each with its arity at its position, then a face per vertex of m
\* with that vertex's valence as arity; every point in exactly four faces;
\* twice the edges.
AmboShape(m, a) ==
    LET F == Len(m.face_index)
        V == Len(m.points)
        Shape(edges) ==
            /\ Len(a.points) = Len(edges)
            /\ Len(a.face_index) = F + V
            /\ \A f \in 1..F : Len(a.face_index[f]) = Len(m.face_index[f])
            /\ \A v \in 1..V : Len(a.face_index[F + v]) = Valence(v - 1, m)
            /\ \A p \in 1..Len(a.points) : Valence(p - 1, a) = 4
            /\ Len(to_edges(a)) = 2 * Len(edges)
    IN a.ok /\ Shape(to_edges(m))

\* C14: ambo of a mesh reached from a seed has exactly one point per edge of
\* the mesh, one face per face of the mesh (same arity, same position)
\* followed by one face per vertex (arity = valence), and every point of it
\* lies in exactly four faces; so V' = E, F' = F + V, E' = 2E.
C14_AmboShape == ~panicked => AmboShape(Cur, ambo(Cur, None, FALSE))

\* dodecahedron().ambo(): V = 30, E = 60, F = 32, 12 pentagons, 20 triangles.
C14_Witness ==
    /\ After("ambo") /\ calls = 1
    /\ prev = dodecahedron
    /\ Len(points) = 30 /\ Len(to_edges(Cur)) = 60 /\ Len(face_index) = 32
    /\ FacesOfArity(5, Cur) = 12 /\ FacesOfArity(3, Cur) = 20
    /\ AmboShape(prev, Cur)

\* t is to m what the claim says of truncate: for every face of m of arity
\* n a face of arity 2n, at the same position, then for every vertex of m of
\* valence k a face of arity k; two points per edge and three times the edges.
TruncateShape(m, t) ==
    LET F == Len(m.face_index)
        V == Len(m.points)
        Shape(edges) ==
            /\ Len(t.face_index) = F + V
            /\ \A f \in 1..F : Len(t.face_index[f]) = 2 * Len(m.face_index[f])
            /\ \A v \in 1..V : Len(t.face_index[F + v]) = Valence(v - 1, m)
            /\ Len(t.points) = 2 * Len(edges)
            /\ Len(to_edges(t)) = 3 * Len(edges)
    IN t.ok /\ Shape(to_edges(m))

\* C15: truncate with height None, vertex_valence None and
\* regular_faces_only false, on a mesh reached from a seed, cuts every
\* vertex: one 2n-gon per n-gon face and one k-gon per vertex of valence k,
\* V' = 2E, E' = 3E, F' = F + V.
C15_TruncateShape ==
    ~panicked => TruncateShape(Cur, truncate(Cur, None, None, FALSE, FALSE))

\* tetrahedron().truncate(None, None, false, true): V = 12, E = 18, F = 8,
\* 4 hexagons and 4 triangles, named "tT".
C15_Witness ==
    /\ After("truncate") /\ calls = 1
    /\ prev = tetrahedron
    /\ last.height = None /\ last.arity = None /\ ~last.regular
    /\ last.change_name
    /\ Len(points) = 12 /\ Len(to_edges(Cur)) = 18 /\ Len(face_index) = 8
    /\ FacesOfArity(6, Cur) = 4 /\ FacesOfArity(3, Cur) = 4
    /\ name = <<"t", "T">>
    /\ TruncateShape(prev, Cur)

\* j is to m what the claim says of join: nothing but quadrilaterals, one
\* around every edge of m (the one face of j that holds both ends of the
\* edge), and a point for every vertex and every face of m.
JoinShape(m, j) ==
    LET Shape(edges) ==
            /\ Len(j.face_index) = Len(edges)
            /\ \A f \in 1..Len(j.face_index) : Len(j.face_index[f]) = 4
            /\ \A e \in 1..Len(edges) :
                  Cardinality({f \in 1..Len(j.face_index) :
                                  /\ Contains(j.face_index[f], edges[e][1])
                                  /\ Contains(j.face_index[f], edges[e][2])}) = 1
            /\ Len(j.points) = Len(m.points) + Len(m.face_index)
    IN j.ok /\ Shape(to_edges(m))

\* C16: join of a mesh reached from a seed has only faces of 4 indices, one
\* around each edge of the mesh, as many faces as the mesh has edges and as
\* many points as the mesh has vertices and faces together.
C16_JoinShape == ~panicked => JoinShape(Cur, join(Cur, None, FALSE))

\* hexahedron().join(): 12 quadrilaterals on 14 points.
C16_Witness ==
    /\ After("join") /\ calls = 1
    /\ prev = hexahedron
    /\ last.ratio = None
    /\ Len(face_index) = 12 /\ FacesOfArity(4, Cur) = 12 /\ Len(points) = 14
    /\ JoinShape(prev, Cur)

(***************************************************************************)
(* reverse and triangulate, on any mesh.                                   *)
(***************************************************************************)
\* r has the points, the face-sets and the name of m.
SameButFaces(m, r) ==
    /\ r.points = m.points
    /\ r.face_set_index = m.face_set_index
    /\ r.name = m.name

\* C17: on any mesh, reverse applied twice gives back the face list element
\* for element, and reverse leaves points, face-sets and name as they were.
C17_ReverseTwice ==
    ~panicked =>
        /\ reverse(Cur).ok /\ reverse(reverse(Cur)).ok
        /\ reverse(reverse(Cur)).face_index = face_index
        /\ SameButFaces(Cur, reverse(Cur))
        /\ SameButFaces(Cur, reverse(reverse(Cur)))
        /\ (last.op = "reverse" => SameButFaces(prev, Cur))

\* reverse changed the faces of a caller's mesh, and a second reverse gives
\* the faces it had.
C17_Witness ==
    /\ After("reverse")
    /\ prev.name = <<"X">>
    /\ face_index # prev.face_index
    /\ reverse(Cur).face_index = prev.face_index
    /\ SameButFaces(prev, Cur)

\* The number of triangles the faces before face f of a face list turn into.
RECURSIVE TrianglesBefore(_, _)
TrianglesBefore(faces, f) ==
    IF f <= 1 THEN 0
    ELSE TrianglesBefore(faces, f - 1) + (Len(faces[f - 1]) - 2)

\* The k-th triangle made of face f of the mesh before the call.
TriangleOf(f, k) == face_index[TrianglesBefore(prev.face_index, f) + k]

\* The squared lengths of the diagonals (0,2) and (1,3) of a quad of prev.
Diagonal02(face) ==
    MagSq(VSub(prev.points[face[1] + 1], prev.points[face[3] + 1]))

Diagonal13(face) ==
    MagSq(VSub(prev.points[face[2] + 1], prev.points[face[4] + 1]))

\* Face f of prev was split along its diagonal (0,2), or along (1,3).
SplitAlong02(f) ==
    LET face == prev.face_index[f]
    IN /\ TriangleOf(f, 1) = <<face[1], face[2], face[3]>>
       /\ TriangleOf(f, 2) = <<face[1], face[3], face[4]>>

SplitAlong13(f) ==
    LET face == prev.face_index[f]
    IN /\ TriangleOf(f, 1) = <<face[2], face[3], face[4]>>
       /\ TriangleOf(f, 2) = <<face[2], face[4], face[1]>>

\* The last call was triangulate and it returned.
Triangulated == calls > 0 /\ last.op = "triangulate" /\ ~panicked

\* C18: a quadrilateral whose two diagonals have the same length is split
\* along its diagonal (0,2), into (f0,f1,f2) and (f0,f2,f3), whether shortest
\* is true or false.
C18_TieSplitsAlong02 ==
    Triangulated =>
        \A f \in 1..Len(prev.face_index) :
            (/\ Len(prev.face_index[f]) = 4
             /\ Diagonal02(prev.face_index[f]) = Diagonal13(prev.face_index[f]))
            => SplitAlong02(f)

\* Face f of prev, of arity n >= 3, became n - 2 triangles as the claim lists
\* them for its arity.
TriangulatedAsListed(f) ==
    LET face == prev.face_index[f]
        n == Len(face)
    IN IF n = 3 THEN TriangleOf(f, 1) = face
       ELSE IF n = 4
       THEN /\ SplitAlong02(f) \/ SplitAlong13(f)
            /\ last.shortest =>
                  /\ SplitAlong02(f) => Diagonal02(face) <= Diagonal13(face)
                  /\ SplitAlong13(f) => Diagonal13(face) <= Diagonal02(face)
            /\ ~last.shortest =>
                  /\ SplitAlong02(f) => Diagonal02(face) >= Diagonal13(face)
                  /\ SplitAlong13(f) => Diagonal13(face) >= Diagonal02(face)
       ELSE IF n = 5
       THEN /\ TriangleOf(f, 1) = <<face[1], face[2], face[5]>>
            /\ TriangleOf(f, 2) = <<face[2], face[3], face[5]>>
            /\ TriangleOf(f, 3) = <<face[5], face[3], face[4]>>
       ELSE \A k \in 1..(n - 2) :
               TriangleOf(f, k) = <<face[1], face[k + 1], face[k + 2]>>

\* C19: triangulate leaves the points alone and turns every face of n >= 3
\* indices into n - 2 triangles, in face order: a triangle stays; a quad is
\* split along a diagonal no longer than the other when shortest is true and
\* no shorter than the other when it is false; a pentagon becomes (f0,f1,f4),
\* (f1,f2,f4), (f4,f2,f3); a larger face becomes the fan from f0.
C19_Triangulate ==
    Triangulated =>
        /\ points = prev.points
        /\ (\A f \in 1..Len(prev.face_index) : Len(prev.face_index[f]) >= 3)
           => /\ Len(face_index)
                   = TrianglesBefore(prev.face_index, Len(prev.face_index) + 1)
              /\ \A f \in 1..Len(face_index) : Len(face_index[f]) = 3
              /\ \A f \in 1..Len(prev.face_index) : TriangulatedAsListed(f)

\* triangulate(true) of a caller's mesh of a quad with unequal diagonals, a
\* pentagon and a hexagon: 2 + 3 + 4 triangles.
C19_Witness ==
    /\ Triangulated /\ last.shortest
    /\ prev.face_index = << <<1, 2, 3, 4>>, <<0, 1, 2, 3, 4>>, <<0, 1, 2, 3, 4, 5>> >>
    /\ Diagonal02(prev.face_index[1]) < Diagonal13(prev.face_index[1])
    /\ Len(face_index) = 9
    /\ SplitAlong02(1)
    /\ TriangleOf(2, 3) = <<4, 2, 3>>
    /\ TriangleOf(3, 4) = <<0, 4, 5>>

(***************************************************************************)
(* The seeds.                                                              *)
(***************************************************************************)
\* m has V points, E edges and F faces, and one face-set, 0 .. F-1.
HasCounts(m, V, E, F) ==
    /\ Len(m.points) = V
    /\ Len(to_edges(m)) = E
    /\ Len(m.face_index) = F
    /\ Len(m.face_set_index) = 1
    /\ Len(m.face_set_index[1]) = F
    /\ \A i \in 0..(F - 1) :
          Cardinality({k \in 1..Len(m.face_set_index[1]) :
                          m.face_set_index[1][k] = i}) = 1

\* C20: the mesh a seed constructor returns has the counts of its Platonic
\* solid, (V, E, F) = (4, 6, 4), (8, 12, 6), (6, 12, 8), (20, 30, 12),
\* (12, 30, 20), and exactly one face-set, which lists every face index once.
C20_SeedCounts ==
    calls = 0 =>
        /\ name \in {<<"T">>, <<"C">>, <<"O">>, <<"D">>, <<"I">>}
        /\ name = <<"T">> => Cur = tetrahedron /\ HasCounts(Cur, 4, 6, 4)
        /\ name = <<"C">> => Cur = hexahedron /\ Cur = cube /\ HasCounts(Cur, 8, 12, 6)
        /\ name = <<"O">> => Cur = octahedron /\ HasCounts(Cur, 6, 12, 8)
        /\ name = <<"D">> => Cur = dodecahedron /\ HasCounts(Cur, 20, 30, 12)
        /\ name = <<"I">> => Cur = icosahedron /\ HasCounts(Cur, 12, 30, 20)

\* The icosahedron as its constructor returns it.
C20_Witness ==
    /\ calls = 0
    /\ Cur = icosahedron
    /\ HasCounts(Cur, 12, 30, 20)
    /\ face_set_index[1][20] = 19

(***************************************************************************)
(* Face-sets across dual.                                                  *)
(***************************************************************************)
\* C21: after a call of dual the face-set list holds none of the face-sets
\* it held before the call.
C21_DualDiscardsFaceSets ==
    After("dual") =>
        Range(face_set_index) \cap Range(prev.face_set_index) = {}

(***************************************************************************)
(* The points of ambo at the ends of the ratio.                            *)
(***************************************************************************)
\* Every point of the mesh held is the old point at end `pos` (1 or 2) of the
\* edge, of to_edges of the mesh before the call, it was made for.
PointsAtEnd(pos) ==
    LET AtEnd(edges) ==
            /\ Len(points) = Len(edges)
            /\ \A e \in 1..Len(edges) :
                  /\ edges[e][1] < edges[e][2]
                  /\ points[e] = prev.points[edges[e][pos] + 1]
    IN AtEnd(to_edges(prev))

\* The last call was ambo with a ratio, and it returned.
AmboWithRatio == After("ambo") /\ IsSome(last.ratio)

\* C22: ambo with ratio 0 puts the new point of every edge [a, b], a < b, at
\* the old point b, and with ratio 1 at the old point a; a ratio below 0 does
\* what 0 does and a ratio above 1 what 1 does.
C22_AmboEndRatios ==
    AmboWithRatio =>
        /\ Unwrap(last.ratio) <= 0 => PointsAtEnd(2)
        /\ Unwrap(last.ratio) >= Scale => PointsAtEnd(1)

\* ambo(Some(-0.5)) of the hexahedron: the first new point is the second end
\* of the first edge, not the first end.
C22_Witness ==
    /\ AmboWithRatio
    /\ last.ratio = Some(-50)
    /\ prev = hexahedron
    /\ PointsAtEnd(2)
    /\ points[1] # prev.points[to_edges(prev)[1][1] + 1]

(***************************************************************************)
(* Parallel loops.                                                         *)
(***************************************************************************)
\* What the first loop of the call in progress collected is what the
\* operator computes when its iterations run in index order.
FirstLoopAsInOrder ==
    IF par.op = "dual" THEN par.outs[1] = dual(Cur, FALSE).points
    ELSE vertex_values(par.outs[1]) = ambo(Cur, None, FALSE).points

\* The mesh a finished call left is the mesh the operator computes when its
\* iterations run in index order and every search hits its first match first.
MeshAsInOrder ==
    /\ last.op = "dual" => Cur = dual(prev, last.change_name)
    /\ last.op = "ambo" => Cur = ambo(prev, last.ratio, last.change_name)

UndirectedEdges(faces) ==
    UNION { { IF faces[f][i] < faces[f][(i % Len(faces[f])) + 1]
              THEN <<faces[f][i], faces[f][(i % Len(faces[f])) + 1]>>
              ELSE <<faces[f][(i % Len(faces[f])) + 1], faces[f][i]>>
              : i \in 1..Len(faces[f]) } : f \in 1..Len(faces) }

\* Every face has at least 3 indices and none equal to its cyclic successor.
WellFormedFaces(faces) ==
    \A f \in 1..Len(faces) :
        /\ Len(faces[f]) >= 3
        /\ \A i \in 1..Len(faces[f]) :
              faces[f][i] # faces[f][(i % Len(faces[f])) + 1]

\* C24: of a face list whose faces have at least 3 indices and no equal
\* neighbours, closed or open and of any orientation, to_edges returns each
\* undirected edge of some face exactly once, smaller index first, and
\* nothing else.
C24_DistinctEdgesAreAllEdges ==
    (~panicked /\ WellFormedFaces(face_index)) =>
        LET edges == to_edges(Cur)
        IN /\ Range(edges) = UndirectedEdges(face_index)
           /\ Cardinality(Range(edges)) = Len(edges)

\* The directed edges of the faces of a face list.
DirectedEdges(faces) ==
    UNION { Range(ordered_face_edges(faces[f])) : f \in 1..Len(faces) }

\* The positions of the faces that run through the directed edge.
FacesWithEdge(edge, faces) ==
    {f \in 1..Len(faces) : Contains(ordered_face_edges(faces[f]), edge)}

\* C25: for a directed edge some face of the list runs through,
\* face_with_edge returns the first such face in face-list order, and that
\* face alone when several faces run through the edge.
C25_FaceWithEdgeIsFirstMatch ==
    ~panicked =>
        \A edge \in DirectedEdges(face_index) :
            face_with_edge(edge, face_index)
                = face_index[Min(FacesWithEdge(edge, face_index))]

\* The index before v in the cycle of a face that contains v.
Before(v, face) ==
    face[((Unwrap(index_of(v, face)) + Len(face) - 1) % Len(face)) + 1]

\* The rings around vertex v of the mesh held are as the claim says: as many
\* faces as contain v, each once, every face followed (the last by the first)
\* by the face across its edge into v; and the edges [v, w] of those faces
\* into v, all different.
RingsAround(v) ==
    LET Rings(vfaces, ring, edges) ==
            LET n == Len(vfaces)
            IN /\ ring.ok /\ edges.ok
               /\ Len(ring.val) = n /\ Len(edges.val) = n
               /\ Range(ring.val) = Range(vfaces)
               /\ Cardinality(Range(ring.val)) = n
               /\ \A i \in 1..n :
                     /\ Contains(ordered_face_edges(ring.val[i]),
                                 <<Before(v, ring.val[i]), v>>)
                     /\ Contains(ordered_face_edges(ring.val[(i % n) + 1]),
                                 <<v, Before(v, ring.val[i])>>)
               /\ Cardinality(Range(edges.val)) = n
               /\ \A i \in 1..n :
                     /\ edges.val[i][1] = v
                     /\ edges.val[i] = <<v, Before(v, ring.val[i])>>
        Of(vfaces) ==
            Rings(vfaces, ordered_vertex_faces(v, vfaces),
                  ordered_vertex_edges(v, vfaces))
    IN Of(vertex_faces(v, face_index))

\* C26: around every vertex v of a mesh reached from a seed,
\* ordered_vertex_faces returns after |vertex_faces(v)| steps with every face
\* containing v exactly once, each face and its successor (the first after
\* the last) sharing an edge at v, and ordered_vertex_edges returns the
\* matching ring of |vertex_faces(v)| different directed edges [v, w].
C26_VertexRings ==
    ~panicked => \A v \in 0..(Len(points) - 1) : RingsAround(v)

\* A mesh an operator made, with a ring of five or more faces.
C26_Witness ==
    /\ calls > 0 /\ ~panicked
    /\ \E v \in 0..(Len(points) - 1) :
          /\ Len(vertex_faces(v, face_index)) >= 5
          /\ RingsAround(v)


(***************************************************************************)
(* Closed, consistently oriented manifolds.                                *)
(***************************************************************************)
\* The face list is that of a closed, consistently oriented manifold: every
\* directed edge of a face occurs once, in one face, and so does its reverse.
ClosedManifold(faces) ==
    LET Closed(all) ==
            /\ Cardinality(Range(all)) = Len(all)
            /\ \A e \in 1..Len(all) : Contains(all, <<all[e][2], all[e][1]>>)
    IN Closed(Concat([f \in 1..Len(faces) |-> ordered_face_edges(faces[f])]))

\* C28: every mesh reached from a seed by operator calls is a closed,
\* consistently oriented manifold: each directed edge of a face occurs in
\* exactly one face, once, and its reverse occurs in exactly one face.
C28_ClosedManifold == ~panicked => ClosedManifold(face_index)

\* A mesh made by propellor or whirl from a mesh an operator made.
C28_Witness ==
    /\ calls = 2 /\ ~panicked
    /\ last.op \in {"propellor", "whirl"}
    /\ ClosedManifold(face_index)


(***************************************************************************)
(* The shape of chamfer.                                                   *)
(***************************************************************************)
\* c is to m what the claim says of chamfer with the default ratio: F + E
\* faces and V + 2E points; the old points first, at their indices (drawn
\* towards the origin by 1.5 * 0.5); then the corner points, face by face in
\* corner order; a face of corner points for every face of m, at its
\* position; then the hexagons, one for every undirected edge of m.
ChamferShape(m, c) ==
    LET faces == m.face_index
        F == Len(faces)
        V == Len(m.points)
        \* first[f] is the index of the first corner point of face f.
        Shape(edges, hexagons, first) ==
            LET \* The index of the corner point of face f at its vertex x.
                corner(f, x) ==
                    first[f] + Min({j \in 1..Len(faces[f]) : faces[f][j] = x}) - 1
                \* The hexagon of the edge (a, b), a < b, of face f and its
                \* reverse of face opp.
                Hexagon(a, b, f, opp) ==
                    <<a, corner(opp, a), corner(opp, b), b, corner(f, b), corner(f, a)>>
                HexagonOf(edge) ==
                    Hexagon(edge[1], edge[2],
                            CHOOSE f \in 1..F :
                                Contains(ordered_face_edges(faces[f]), edge),
                            CHOOSE f \in 1..F :
                                Contains(ordered_face_edges(faces[f]),
                                         <<edge[2], edge[1]>>))
            IN /\ Len(c.face_index) = F + Cardinality(edges)
               /\ Len(c.points) = V + 2 * Cardinality(edges)
               /\ \A f \in 1..F :
                     c.face_index[f]
                         = [j \in 1..Len(faces[f]) |-> corner(f, faces[f][j])]
               /\ \A edge \in edges : HexagonOf(edge) \in hexagons
               /\ \A v \in 1..V :
                     c.points[v] = VScale((3 * Scale) \div 4, m.points[v])
    IN /\ c.ok
       /\ Shape(UndirectedEdges(faces),
                Range(SubSeq(c.face_index, F + 1, Len(c.face_index))),
                [f \in 1..F |-> V + Len(Concat(SubSeq(faces, 1, f - 1)))])

\* C27: chamfer of a closed manifold mesh reached from a seed has F + E faces
\* and V + 2E points: for every old face, at its position, the face of its
\* corner points in corner order; then for every undirected old edge (a, b),
\* a < b, of face f and opposite face opp the hexagon
\* [a, corner(opp, a), corner(opp, b), b, corner(f, b), corner(f, a)]; the
\* old vertices are the points 0 .. V-1.
C27_ChamferShape ==
    (~panicked /\ ClosedManifold(face_index)) =>
        ChamferShape(Cur, chamfer(Cur, None, FALSE))

\* hexahedron().chamfer(): 8 + 24 points, 6 quadrilaterals and 12 hexagons.
C27_Witness ==
    /\ After("chamfer") /\ calls = 1
    /\ last.ratio = None
    /\ prev = hexahedron
    /\ ClosedManifold(prev.face_index)
    /\ Len(points) = 32 /\ Len(face_index) = 18
    /\ FacesOfArity(4, Cur) = 6 /\ FacesOfArity(6, Cur) = 12
    /\ ChamferShape(prev, Cur)


(***************************************************************************)
(* Vertex-id tables.                                                       *)
(***************************************************************************)
\* The operators that build a vertex-id table.
TableOps == {"ambo", "chamfer", "gyro", "kis", "propellor", "quinto", "whirl"}

\* The new_points the call builds on mesh m.
TableOf(call, m) ==
    CASE call.op = "ambo" -> ambo_new_points(m, call.ratio, to_edges(m))
      [] call.op = "chamfer" -> chamfer_new_points(m, call.ratio)
      [] call.op = "gyro" -> gyro_new_points(m, call.ratio, call.height, to_edges(m))
      [] call.op = "kis" ->
            kis_new_points(m, call.height, call.arity, call.regular)
      [] call.op = "propellor" -> propellor_new_points(m, call.ratio, to_edges(m))
      [] call.op = "quinto" -> quinto_new_points(m, call.height, to_edges(m))
      [] call.op = "whirl" -> whirl_new_points(m, call.ratio, call.height, to_edges(m))

\* The first index the call's table gives out: ambo drops the old points,
\* the others keep them.
OffsetOf(call, m) == IF call.op = "ambo" THEN 0 ELSE Len(m.points)

\* The keys of the table are pairwise different, and entry i (counted from 0)
\* is given the index offset + i, at which the mesh `out` holds its point.
TableSound(table, offset, out) ==
    LET Sound(new_ids) ==
            /\ Cardinality({table[i][1] : i \in 1..Len(table)}) = Len(table)
            /\ Len(out.points) = offset + Len(table)
            /\ \A i \in 1..Len(table) :
                  /\ vertex(table[i][1], new_ids) = Some(offset + i - 1)
                  /\ out.points[offset + i] = table[i][2]
    IN Sound(vertex_ids(table, offset))

\* C29: after a call of ambo, chamfer, gyro, kis, propellor, quinto or whirl
\* on a mesh reached from a seed, the keys of the vertex-id table the call
\* built are pairwise different and the index the table gives to a key is the
\* position of that key's point in the point list of the result: the old
\* point count + i, or i for ambo.
C29_TablesSound ==
    (calls > 0 /\ ~panicked /\ last.op \in TableOps) =>
        TableSound(TableOf(last, prev), OffsetOf(last, prev), Cur)

\* A gyro on a mesh an operator made: a table of face and edge keys.
C29_Witness ==
    /\ After("gyro") /\ calls = 2
    /\ Len(TableOf(last, prev)) = Len(prev.face_index) + 2 * Len(to_edges(prev))
    /\ Len(points) > Len(prev.points)
    /\ TableSound(TableOf(last, prev), OffsetOf(last, prev), Cur)


(***************************************************************************)
(* Operators that keep the points they are given.                          *)
(***************************************************************************)
\* The operators that append their new points to the old ones.
RetainingOps == {"kis", "gyro", "propellor", "quinto", "whirl"}

\* The faces of `new` from position p on are what kis makes of the faces of
\* `old` from position f on, when k faces before f were replaced: a face
\* either stays, or gives way to its triangles (f[j], f[(j+1) mod n], c) in
\* corner order, c being the k-th point after the V old ones; `added` points
\* were appended in all.
RECURSIVE KisReplaces(_, _, _, _, _, _, _)
KisReplaces(old, new, V, added, f, p, k) ==
    IF f > Len(old) THEN p = Len(new) + 1 /\ k = added
    ELSE LET face == old[f]
             n == Len(face)
         IN IF p <= Len(new) /\ new[p] = face
            THEN KisReplaces(old, new, V, added, f + 1, p + 1, k)
            ELSE /\ p + n - 1 <= Len(new)
                 /\ \A j \in 1..n :
                       new[p + j - 1] = <<face[j], face[(j % n) + 1], V + k>>
                 /\ KisReplaces(old, new, V, added, f + 1, p + n, k + 1)

\* C30: after a call of kis, gyro, propellor, quinto or whirl the first V
\* points (V = the point count before the call) are the old points, unchanged
\* and at their indices, the new points following them; kis appends one point
\* per replaced face and puts in the place of an n-gon f the n triangles
\* (f[j], f[(j+1) mod n], c) in corner order.
C30_PointsRetained ==
    (calls > 0 /\ ~panicked /\ last.op \in RetainingOps) =>
        /\ Len(points) >= Len(prev.points)
        /\ SubSeq(points, 1, Len(prev.points)) = prev.points
        /\ last.op = "kis" =>
              KisReplaces(prev.face_index, face_index, Len(prev.points),
                          Len(points) - Len(prev.points), 1, 1, 0)

\* A kis as second call that replaced some faces and left others.
C30_Witness ==
    /\ After("kis") /\ calls = 2
    /\ Len(points) > Len(prev.points)
    /\ \E f \in 1..Len(prev.face_index) : Contains(face_index, prev.face_index[f])
    /\ \E f \in 1..Len(prev.face_index) : ~Contains(face_index, prev.face_index[f])
    /\ KisReplaces(prev.face_index, face_index, Len(prev.points),
                   Len(points) - Len(prev.points), 1, 1, 0)

====
